---- MODULE Spec2Model ----
(***************************************************************************)
(* Storage core of rustdb: slotted pages (page.rs), the heap file          *)
(* (heap.rs) and the B-tree index laid out in page bodies (btree.rs).      *)
(*                                                                         *)
(* A page is its byte buffer: a sequence of bytes whose element o+1 is the *)
(* byte at offset o.  Every accessor is translated byte for byte, so that  *)
(* offsets, widths and overlaps are those of the code.                     *)
(***************************************************************************)
EXTENDS Integers, Sequences, FiniteSets, TLC

VARIABLES
    page_size,   \* the compile-time constant PAGE_SIZE of the build under check
    disk,        \* the index file: the sequence of its pages (page i at offset i*PAGE_SIZE)
    open,        \* TRUE while a BTree value (and its HeapFile) is alive
    num_pages,   \* HeapFile.num_pages of the handle (kept after drop as the last value it had)
    created,     \* history: the file was built by BTree::create
    req,         \* history: key -> RowRef of the first insert call made for each key since create
    inserted,    \* history: key -> RowRef of the insert calls that returned Ok(()) since create
    last,        \* the last operation and what it returned
    hp,          \* a Heap-flavour page held in memory (page.rs)
    rows         \* history: the byte strings stored in hp, by slot index

vars == <<page_size, disk, open, num_pages, created, req, inserted, last, hp, rows>>

(***************************************************************************)
(* Bounds of the model and constants of the program.                       *)
(***************************************************************************)
PAGE_SIZE == 8192
SmallPageSize == 70      \* reduced page size of the B-tree specifications
HeapPageSize == 64       \* reduced page size of the slotted-page specifications
MaxKey == 1
LoadKeys == 500          \* tests::btree_split_under_load
LoadStep == 5            \* loop iterations in one step of SpecLoad
MaxHeapPages == 3        \* pages a heap file grows to
MaxCols == 2             \* columns of a schema and of a value sequence
LeafSplitPageSize == 80  \* page size of SpecSplitLeaf: a leaf of three entries

PAGE_MAGIC == <<66, 68, 83, 82>>   \* 0x5253_4442, little-endian
HEADER_LEN == 32
OFFSET_MAGIC == 0
OFFSET_PAGE_ID == 4
OFFSET_FLAGS == 8
OFFSET_N_SLOTS == 10
OFFSET_FREE_END == 12
SLOT_SIZE == 4
SLOT_DIR_START == HEADER_LEN
ROW_HEADER_LEN == 9

Heap == 0
Leaf == 1
Internal == 2

BTREE_BODY_START == 32
LEAF_ENTRY_SIZE == 8 + 4 + 2
INTERNAL_KEY_SIZE == 4 + 8

Keys == (0 - 1)..MaxKey
RowRef(p, s) == [page_id |-> p, slot |-> s]
RowRefs == {RowRef(1, 0), RowRef(2, 1)}

(***************************************************************************)
(* Integers as little-endian bytes.  Values of the model stay below 2^24   *)
(* in magnitude; a negative i64 is sign-extended with 0xFF bytes.          *)
(***************************************************************************)
Pow256(i) == IF i = 0 THEN 1 ELSE IF i = 1 THEN 256 ELSE IF i = 2 THEN 65536 ELSE 16777216

ByteOf(v, i) ==
    IF v >= 0
    THEN IF i < 4 THEN (v \div Pow256(i)) % 256 ELSE 0
    ELSE IF i < 3 THEN ((v + 16777216) \div Pow256(i)) % 256 ELSE 255

to_le_bytes(v, n) == [i \in 1..n |-> ByteOf(v, i - 1)]

u16_from_le_bytes(b) == b[1] + 256 * b[2]
u32_from_le_bytes(b) == b[1] + 256 * b[2] + 65536 * b[3] + 16777216 * b[4]
i64_from_le_bytes(b) ==
    IF b[8] >= 128
    THEN b[1] + 256 * b[2] + 65536 * b[3] - 16777216
    ELSE b[1] + 256 * b[2] + 65536 * b[3] + 16777216 * b[4]

as_u16(v) == v % 65536

(***************************************************************************)
(* Slices of the page buffer.  data[off..off+n] panics when the range      *)
(* leaves the buffer; a write that panics yields the empty buffer <<>>,    *)
(* on which every later write panics as well, so that a panic anywhere in  *)
(* a chain of writes is visible in its result.                             *)
(***************************************************************************)
Panicked(data) == Len(data) = 0

\* the bytes b[j..] stored at offsets off + j - 1, ...
RECURSIVE store(_, _, _, _)
store(data, off, b, j) ==
    IF j > Len(b) THEN data
    ELSE store([data EXCEPT ![off + j] = b[j]], off, b, j + 1)

copy_from_slice(data, off, b) ==
    IF off + Len(b) > Len(data)
    THEN <<>>
    ELSE store(data, off, b, 1)

slice(data, off, n) == [i \in 1..n |-> IF off + i <= Len(data) THEN data[off + i] ELSE 0]

\* let x = v in F(x): v is evaluated once and named
Bind(v, F(_)) == F(v)

(***************************************************************************)
(* page.rs: header accessors and Page::new.                                *)
(***************************************************************************)
set_magic(data, v) == copy_from_slice(data, OFFSET_MAGIC, v)
magic(data) == slice(data, OFFSET_MAGIC, 4)
page_id(data) == u32_from_le_bytes(slice(data, OFFSET_PAGE_ID, 4))
set_page_id_wide(data, v) == copy_from_slice(data, OFFSET_PAGE_ID, to_le_bytes(v, 8))
set_page_id(data, v) == copy_from_slice(data, OFFSET_PAGE_ID, to_le_bytes(v, 4))
set_flags(data, v) == copy_from_slice(data, OFFSET_FLAGS, to_le_bytes(v, 2))
flags(data) == u16_from_le_bytes(slice(data, 8, 2))
raw_n_slots(data) == u16_from_le_bytes(slice(data, OFFSET_N_SLOTS, 2))
set_n_slots(data, v) == copy_from_slice(data, OFFSET_N_SLOTS, to_le_bytes(v, 2))
free_end(data) == u16_from_le_bytes(slice(data, OFFSET_FREE_END, 2))
set_free_end(data, v) == copy_from_slice(data, OFFSET_FREE_END, to_le_bytes(v, 2))

Page_new(id, fl) ==
    LET p0 == [i \in 1..page_size |-> 0]
        p1 == set_magic(p0, PAGE_MAGIC)
        p2 == set_page_id(p1, id)
        p3 == set_flags(p2, fl)
        p4 == set_n_slots(p3, 0)
    IN  set_free_end(p4, as_u16(page_size))

(***************************************************************************)
(* page.rs: the slotted (Heap flavour) page.                               *)
(***************************************************************************)
\* usize subtraction; a negative difference wraps (release build).  The
\* modulus stands for 2^64: it exceeds every length of the model.
UsizeModulus == 1073741824
sub_usize(a, b) == IF a >= b THEN a - b ELSE a - b + UsizeModulus

slot_dir_end(data) == SLOT_DIR_START + raw_n_slots(data) * SLOT_SIZE

free_space_no_reserve(data) ==
    LET end == slot_dir_end(data)
        start == free_end(data)
    IN  IF start <= end THEN 0 ELSE start - end

free_space(data) ==
    LET end == slot_dir_end(data)
        start == free_end(data)
    IN  IF start <= end THEN 0 ELSE sub_usize(start - end, SLOT_SIZE)

Page_insert_no_reserve(data, row) ==
    LET need == Len(row)
        n == raw_n_slots(data)
        new_free == sub_usize(free_end(data), Len(row))
        slot_offset == as_u16(new_free)
        slot_len == as_u16(Len(row))
        d1 == copy_from_slice(data, new_free, row)
        d2 == set_free_end(d1, as_u16(new_free))
        slot_pos == SLOT_DIR_START + n * SLOT_SIZE
        d3 == copy_from_slice(d2, slot_pos, to_le_bytes(slot_offset, 2))
        d4 == copy_from_slice(d3, slot_pos + 2, to_le_bytes(slot_len, 2))
        d5 == set_n_slots(d4, n + 1)
    IN  IF free_space(data) < need
        THEN [page |-> data, slot |-> -1]
        ELSE [page |-> d5, slot |-> n]

Page_insert_keep_free_end(data, row) ==
    LET need == Len(row) + SLOT_SIZE
        n == raw_n_slots(data)
        new_free == sub_usize(free_end(data), Len(row))
        slot_offset == as_u16(new_free)
        slot_len == as_u16(Len(row))
        d1 == copy_from_slice(data, new_free, row)
        slot_pos == SLOT_DIR_START + n * SLOT_SIZE
        d3 == copy_from_slice(d1, slot_pos, to_le_bytes(slot_offset, 2))
        d4 == copy_from_slice(d3, slot_pos + 2, to_le_bytes(slot_len, 2))
        d5 == set_n_slots(d4, n + 1)
    IN  IF free_space(data) < need
        THEN [page |-> data, slot |-> -1]
        ELSE [page |-> d5, slot |-> n]

Page_insert_long_slot(data, row) ==
    LET need == Len(row) + SLOT_SIZE
        n == raw_n_slots(data)
        new_free == sub_usize(free_end(data), Len(row))
        slot_offset == as_u16(new_free)
        slot_len == as_u16(Len(row) + 1)
        d1 == copy_from_slice(data, new_free, row)
        d2 == set_free_end(d1, as_u16(new_free))
        slot_pos == SLOT_DIR_START + n * SLOT_SIZE
        d3 == copy_from_slice(d2, slot_pos, to_le_bytes(slot_offset, 2))
        d4 == copy_from_slice(d3, slot_pos + 2, to_le_bytes(slot_len, 2))
        d5 == set_n_slots(d4, n + 1)
    IN  IF free_space(data) < need
        THEN [page |-> data, slot |-> -1]
        ELSE [page |-> d5, slot |-> n]

Page_insert_slot_before(data, row) ==
    LET need == Len(row) + SLOT_SIZE
        n == raw_n_slots(data)
        new_free == sub_usize(free_end(data), Len(row))
        slot_offset == as_u16(new_free)
        slot_len == as_u16(Len(row))
        d1 == copy_from_slice(data, new_free, row)
        d2 == set_free_end(d1, as_u16(new_free))
        slot_pos == SLOT_DIR_START + n * SLOT_SIZE - SLOT_SIZE
        d3 == copy_from_slice(d2, slot_pos, to_le_bytes(slot_offset, 2))
        d4 == copy_from_slice(d3, slot_pos + 2, to_le_bytes(slot_len, 2))
        d5 == set_n_slots(d4, n + 1)
    IN  IF free_space(data) < need
        THEN [page |-> data, slot |-> -1]
        ELSE [page |-> d5, slot |-> n]

\* Option<usize>: slot = -1 is None
Page_insert(data, row) ==
    LET need == Len(row) + SLOT_SIZE
        n == raw_n_slots(data)
        new_free == sub_usize(free_end(data), Len(row))
        slot_offset == as_u16(new_free)
        slot_len == as_u16(Len(row))
        d1 == copy_from_slice(data, new_free, row)
        d2 == set_free_end(d1, as_u16(new_free))
        slot_pos == SLOT_DIR_START + n * SLOT_SIZE
        d3 == copy_from_slice(d2, slot_pos, to_le_bytes(slot_offset, 2))
        d4 == copy_from_slice(d3, slot_pos + 2, to_le_bytes(slot_len, 2))
        d5 == set_n_slots(d4, n + 1)
    IN  IF free_space(data) < need
        THEN [page |-> data, slot |-> -1]
        ELSE [page |-> d5, slot |-> n]

\* Option<&[u8]>
get_slot(data, slot_id) ==
    LET pos == SLOT_DIR_START + slot_id * SLOT_SIZE
        offset == u16_from_le_bytes(slice(data, pos, 2))
        len == u16_from_le_bytes(slice(data, pos + 2, 2))
    IN  IF slot_id >= raw_n_slots(data) THEN [some |-> FALSE, bytes |-> <<>>]
        ELSE IF offset + len > Len(data) THEN [some |-> FALSE, bytes |-> <<>>]
        ELSE [some |-> TRUE, bytes |-> slice(data, offset, len)]

delete_slot_reclaim(data, slot_id) ==
    LET pos == SLOT_DIR_START + slot_id * SLOT_SIZE
        offset == u16_from_le_bytes(slice(data, pos, 2))
        len == u16_from_le_bytes(slice(data, pos + 2, 2))
        tombstone_offset == offset + 8
        d1 == copy_from_slice(data, tombstone_offset, <<1>>)
        d2 == IF slot_id + 1 = raw_n_slots(data) THEN set_n_slots(d1, slot_id) ELSE d1
    IN  IF slot_id >= raw_n_slots(data) THEN [page |-> data, st |-> "InvalidSlot"]
        ELSE IF len < ROW_HEADER_LEN THEN [page |-> data, st |-> "RowTooShort"]
        ELSE IF Panicked(d1) THEN [page |-> data, st |-> "Panic"]
        ELSE [page |-> d2, st |-> "Ok"]

delete_slot_any_len(data, slot_id) ==
    LET pos == SLOT_DIR_START + slot_id * SLOT_SIZE
        offset == u16_from_le_bytes(slice(data, pos, 2))
        tombstone_offset == offset + 8
        d1 == copy_from_slice(data, tombstone_offset, <<1>>)
    IN  IF slot_id >= raw_n_slots(data) THEN [page |-> data, st |-> "InvalidSlot"]
        ELSE IF Panicked(d1) THEN [page |-> data, st |-> "Panic"]
        ELSE [page |-> d1, st |-> "Ok"]

delete_slot_first_byte(data, slot_id) ==
    LET pos == SLOT_DIR_START + slot_id * SLOT_SIZE
        offset == u16_from_le_bytes(slice(data, pos, 2))
        len == u16_from_le_bytes(slice(data, pos + 2, 2))
        tombstone_offset == offset
        d1 == copy_from_slice(data, tombstone_offset, <<1>>)
    IN  IF slot_id >= raw_n_slots(data) THEN [page |-> data, st |-> "InvalidSlot"]
        ELSE IF len < ROW_HEADER_LEN THEN [page |-> data, st |-> "RowTooShort"]
        ELSE IF Panicked(d1) THEN [page |-> data, st |-> "Panic"]
        ELSE [page |-> d1, st |-> "Ok"]

delete_slot(data, slot_id) ==
    LET pos == SLOT_DIR_START + slot_id * SLOT_SIZE
        offset == u16_from_le_bytes(slice(data, pos, 2))
        len == u16_from_le_bytes(slice(data, pos + 2, 2))
        tombstone_offset == offset + 8
        d1 == copy_from_slice(data, tombstone_offset, <<1>>)
    IN  IF slot_id >= raw_n_slots(data) THEN [page |-> data, st |-> "InvalidSlot"]
        ELSE IF len < ROW_HEADER_LEN THEN [page |-> data, st |-> "RowTooShort"]
        ELSE IF Panicked(d1) THEN [page |-> data, st |-> "Panic"]
        ELSE [page |-> d1, st |-> "Ok"]

(***************************************************************************)
(* heap.rs: the heap file.  A handle is h = [pages, num_pages]: the pages  *)
(* of the file and the num_pages field of the HeapFile value.              *)
(***************************************************************************)
HeapFile_create == [pages |-> <<>>, num_pages |-> 0]

HeapFile_open_zero(file) ==
    [ok |-> (Len(file) * page_size) % page_size = 0,
     h |-> [pages |-> file, num_pages |-> 0]]

\* len = file.metadata().len(); ensure len % PAGE_SIZE = 0; num_pages = len / PAGE_SIZE
HeapFile_open(file) ==
    LET len == Len(file) * page_size
    IN  [ok |-> len % page_size = 0,
         h |-> [pages |-> file, num_pages |-> len \div page_size]]

append_page_keep_id(h, page) ==
    LET id == h.num_pages
    IN  [h |-> [pages |-> IF id < Len(h.pages)
                          THEN [h.pages EXCEPT ![id + 1] = page]
                          ELSE Append(h.pages, page),
                num_pages |-> h.num_pages + 1],
         id |-> id]

append_page(h, page) ==
    LET id == h.num_pages
        p == set_page_id(page, id)
    IN  [h |-> [pages |-> IF id < Len(h.pages)
                          THEN [h.pages EXCEPT ![id + 1] = p]
                          ELSE Append(h.pages, p),
                num_pages |-> h.num_pages + 1],
         id |-> id]

read_page_unchecked(h, id) ==
    IF id >= Len(h.pages) THEN [ok |-> FALSE, page |-> <<>>, err |-> "UnexpectedEof"]
    ELSE IF magic(h.pages[id + 1]) # PAGE_MAGIC
    THEN [ok |-> FALSE, page |-> <<>>, err |-> "InvalidMagic"]
    ELSE [ok |-> TRUE, page |-> h.pages[id + 1], err |-> "None"]

\* ensure!(page_id < num_pages), read_exact, magic check
read_page(h, id) ==
    IF id >= h.num_pages THEN [ok |-> FALSE, page |-> <<>>, err |-> "PageOutOfRange"]
    ELSE IF id >= Len(h.pages) THEN [ok |-> FALSE, page |-> <<>>, err |-> "UnexpectedEof"]
    ELSE IF magic(h.pages[id + 1]) # PAGE_MAGIC
    THEN [ok |-> FALSE, page |-> <<>>, err |-> "InvalidMagic"]
    ELSE [ok |-> TRUE, page |-> h.pages[id + 1], err |-> "None"]

\* Overwrites the page at id * PAGE_SIZE; id < num_pages is the caller's contract.
write_page(h, id, page) ==
    IF id < Len(h.pages)
    THEN [h EXCEPT !.pages[id + 1] = page]
    ELSE h

(***************************************************************************)
(* btree.rs: node layouts in the page body.                                *)
(***************************************************************************)
leaf_max_entries_short == (page_size - BTREE_BODY_START - 4 - 2) \div LEAF_ENTRY_SIZE - 1

leaf_max_entries == (page_size - BTREE_BODY_START - 4 - 2) \div LEAF_ENTRY_SIZE
internal_max_keys == (page_size - BTREE_BODY_START - 2 - 4) \div INTERNAL_KEY_SIZE

leaf_set_next(page, next) == copy_from_slice(page, BTREE_BODY_START, to_le_bytes(next, 4))
leaf_next(page) == u32_from_le_bytes(slice(page, BTREE_BODY_START, 4))
leaf_set_num_entries(page, n) == copy_from_slice(page, BTREE_BODY_START + 4, to_le_bytes(n, 2))
leaf_num_entries(page) == u16_from_le_bytes(slice(page, BTREE_BODY_START + 4, 2))
leaf_entry_offset(idx) == BTREE_BODY_START + 6 + idx * LEAF_ENTRY_SIZE
leaf_get_key(page, idx) == i64_from_le_bytes(slice(page, leaf_entry_offset(idx), 8))
leaf_get_ref(page, idx) ==
    LET off == leaf_entry_offset(idx) + 8
    IN  RowRef(u32_from_le_bytes(slice(page, off, 4)), u16_from_le_bytes(slice(page, off + 4, 2)))
leaf_set_entry(page, idx, key, r) ==
    LET off == leaf_entry_offset(idx)
        p1 == copy_from_slice(page, off, to_le_bytes(key, 8))
        p2 == copy_from_slice(p1, off + 8, to_le_bytes(r.page_id, 4))
    IN  copy_from_slice(p2, off + 12, to_le_bytes(r.slot, 2))

\* for i in (idx..n).rev() { leaf_set_entry(page, i + 1, key(i), ref(i)) }
RECURSIVE leaf_shift(_, _, _)
leaf_shift(page, i, idx) ==
    IF i < idx THEN page
    ELSE leaf_shift(leaf_set_entry(page, i + 1, leaf_get_key(page, i), leaf_get_ref(page, i)),
                    i - 1, idx)

leaf_insert_at(page, idx, key, r) ==
    LET n == leaf_num_entries(page)
        p1 == leaf_shift(page, n - 1, idx)
        p2 == leaf_set_entry(p1, idx, key, r)
    IN  leaf_set_num_entries(p2, as_u16(n + 1))

internal_set_num_keys(page, n) == copy_from_slice(page, BTREE_BODY_START, to_le_bytes(n, 2))
internal_num_keys(page) == u16_from_le_bytes(slice(page, BTREE_BODY_START, 2))
internal_child_offset(idx) == BTREE_BODY_START + 2 + idx * (4 + 8)
internal_get_child(page, idx) == u32_from_le_bytes(slice(page, internal_child_offset(idx), 4))
internal_get_key(page, idx) == i64_from_le_bytes(slice(page, internal_child_offset(idx) + 4, 8))
internal_set_child_key(page, idx, child, key) ==
    LET off == internal_child_offset(idx)
        p1 == copy_from_slice(page, off, to_le_bytes(child, 4))
    IN  copy_from_slice(p1, off + 4, to_le_bytes(key, 8))
internal_set_last_child(page, n, child) ==
    copy_from_slice(page, internal_child_offset(n), to_le_bytes(child, 4))

(***************************************************************************)
(* btree.rs: lookup.  A result is [st, ref]: st = "Some", "None", or "Err" *)
(* (read_page failed), or "Panic".  depth counts the recursion: a descent  *)
(* deeper than the file has pages revisits a page and never returns (stack *)
(* exhaustion), reported as "Panic".                                       *)
(***************************************************************************)
NoRef == RowRef(0, 0)

\* the leaf loop of get_from: first entry with k = key, stop at k > key
\* where a `for i in i..n` loop over a leaf's keys that leaves at the first
\* k == key or k > key stops: the least such index, n when it runs to its end
leaf_first_at_least(page, i, n, key) ==
    Bind({j \in i..(n - 1) : leaf_get_key(page, j) >= key}, LAMBDA S :
        IF S = {} THEN n ELSE CHOOSE j \in S : \A m \in S : j <= m)

leaf_lookup(page, i, n, key) ==
    Bind(leaf_first_at_least(page, i, n, key), LAMBDA j :
        IF j < n /\ leaf_get_key(page, j) = key
        THEN [st |-> "Some", ref |-> leaf_get_ref(page, j)]
        ELSE [st |-> "None", ref |-> NoRef])

\* the routing loop: child_idx = number of leading keys with key >= key_i
RECURSIVE route(_, _, _, _)
route(page, i, n, key) ==
    IF i >= n THEN i
    ELSE IF key < internal_get_key(page, i) THEN i
    ELSE route(page, i + 1, n, key)

RECURSIVE get_from(_, _, _, _)
get_from(h, pid, key, depth) ==
    IF depth > h.num_pages THEN [st |-> "Panic", ref |-> NoRef]
    ELSE Bind(read_page(h, pid), LAMBDA rp :
        IF ~rp.ok THEN [st |-> "Err", ref |-> NoRef]
        ELSE Bind(rp.page, LAMBDA page :
            IF flags(page) = Leaf
            THEN leaf_lookup(page, 0, leaf_num_entries(page), key)
            ELSE Bind(route(page, 0, internal_num_keys(page), key), LAMBDA child_idx :
                    get_from(h, internal_get_child(page, child_idx), key, depth + 1))))

get(h, key) == get_from(h, 0, key, 0)

(***************************************************************************)
(* btree.rs: range scan.  A result is [st, out], out the Vec<(i64,RowRef)>.*)
(***************************************************************************)
RECURSIVE leaf_scan(_, _, _, _, _, _)
\* returns [done, out]: done = TRUE when the loop returned early on k >= end
leaf_scan(page, i, n, start, end, out) ==
    IF i >= n THEN [done |-> FALSE, out |-> out]
    ELSE LET k == leaf_get_key(page, i)
         IN  IF k >= end THEN [done |-> TRUE, out |-> out]
             ELSE leaf_scan(page, i + 1, n, start, end,
                            IF k >= start
                            THEN Append(out, [key |-> k, ref |-> leaf_get_ref(page, i)])
                            ELSE out)

RECURSIVE range_scan_from(_, _, _, _, _, _)
RECURSIVE internal_scan(_, _, _, _, _, _, _, _)
\* the while loop of the internal branch, from index i on
internal_scan(h, page, i, n, start, end, out, depth) ==
    IF i < n
    THEN Bind(internal_get_key(page, i), LAMBDA k :
         Bind(internal_get_child(page, i), LAMBDA child :
            IF end <= k
            THEN range_scan_from(h, child, start, end, out, depth + 1)
            ELSE IF start <= k
            THEN Bind(range_scan_from(h, child, start, end, out, depth + 1), LAMBDA r :
                    IF r.st # "Ok" THEN r
                    ELSE internal_scan(h, page, i + 1, n, start, end, r.out, depth))
            ELSE internal_scan(h, page, i + 1, n, start, end, out, depth)))
    ELSE range_scan_from(h, internal_get_child(page, n), start, end, out, depth + 1)

range_scan_from(h, pid, start, end, out, depth) ==
    IF depth > h.num_pages THEN [st |-> "Panic", out |-> out]
    ELSE Bind(read_page(h, pid), LAMBDA rp :
        IF ~rp.ok THEN [st |-> "Err", out |-> out]
        ELSE Bind(rp.page, LAMBDA page :
            IF flags(page) = Leaf
            THEN Bind(leaf_scan(page, 0, leaf_num_entries(page), start, end, out), LAMBDA ls :
                 Bind(leaf_next(page), LAMBDA next :
                    IF ls.done THEN [st |-> "Ok", out |-> ls.out]
                    ELSE IF next # 0
                    THEN range_scan_from(h, next, start, end, ls.out, depth + 1)
                    ELSE [st |-> "Ok", out |-> ls.out]))
            ELSE internal_scan(h, page, 0, internal_num_keys(page), start, end, out, depth)))

range_scan(h, start, end) == range_scan_from(h, 0, start, end, <<>>, 0)

(***************************************************************************)
(* btree.rs: insert.  insert_into returns [h, st, key, pid]:               *)
(*   st = "None"  Ok(None)            st = "Some"  Ok(Some((key, pid)))    *)
(*   st = "DuplicateKey" | "Err"      the error returned by `?`            *)
(*   st = "Panic"                     a slice index left the page buffer   *)
(* h is the heap file as the call left it.                                 *)
(***************************************************************************)
Ret(h, st, key, pid) == [h |-> h, st |-> st, key |-> key, pid |-> pid]

leaf_find_nodup(page, i, n, key) ==
    Bind(leaf_first_at_least(page, i, n, key), LAMBDA j : [dup |-> FALSE, idx |-> j])

leaf_find_append(page, i, n, key) ==
    Bind(leaf_first_at_least(page, i, n, key), LAMBDA j :
        IF j < n /\ leaf_get_key(page, j) = key
        THEN [dup |-> TRUE, idx |-> j]
        ELSE [dup |-> FALSE, idx |-> n])

\* the scan of the leaf branch: [dup, idx]
leaf_find(page, i, n, key) ==
    Bind(leaf_first_at_least(page, i, n, key), LAMBDA j :
        IF j < n /\ leaf_get_key(page, j) = key
        THEN [dup |-> TRUE, idx |-> j]
        ELSE [dup |-> FALSE, idx |-> j])

\* for i in 0..(n - mid) { leaf_set_entry(new_page, i, key(mid + i), ref(mid + i)) }
RECURSIVE leaf_move(_, _, _, _, _)
leaf_move(new_page, page, i, cnt, mid) ==
    IF i >= cnt THEN new_page
    ELSE leaf_move(leaf_set_entry(new_page, i, leaf_get_key(page, mid + i),
                                  leaf_get_ref(page, mid + i)),
                   page, i + 1, cnt, mid)

split_leaf_mid_up(h, pid, page) ==
    Bind(leaf_num_entries(page), LAMBDA n :
    Bind((n + 1) \div 2, LAMBDA mid :
    Bind(leaf_get_key(page, mid), LAMBDA split_key :
    Bind(leaf_move(leaf_set_num_entries(leaf_set_next(Page_new(0, Leaf), leaf_next(page)),
                                        as_u16(n - mid)),
                   page, 0, n - mid, mid), LAMBDA new_page :
    Bind(leaf_set_next(leaf_set_num_entries(page, as_u16(mid)), h.num_pages), LAMBDA p2 :
        IF Panicked(new_page) \/ Panicked(p2)
        THEN Ret(h, "Panic", 0, 0)
        ELSE Bind(append_page(h, new_page), LAMBDA ap :
                Ret(write_page(ap.h, pid, p2), "Some", split_key, ap.id)))))))

split_leaf(h, pid, page) ==
    Bind(leaf_num_entries(page), LAMBDA n :
    Bind(n \div 2, LAMBDA mid :
    Bind(leaf_get_key(page, mid), LAMBDA split_key :
    Bind(leaf_move(leaf_set_num_entries(leaf_set_next(Page_new(0, Leaf), leaf_next(page)),
                                        as_u16(n - mid)),
                   page, 0, n - mid, mid), LAMBDA new_page :
    Bind(leaf_set_next(leaf_set_num_entries(page, as_u16(mid)), h.num_pages), LAMBDA p2 :
        IF Panicked(new_page) \/ Panicked(p2)
        THEN Ret(h, "Panic", 0, 0)
        ELSE Bind(append_page(h, new_page), LAMBDA ap :
                Ret(write_page(ap.h, pid, p2), "Some", split_key, ap.id)))))))

\* for i in (after_child_idx + 1..n).rev() { set_child_key(page, i + 1, child(i), key(i)) }
RECURSIVE internal_shift(_, _, _)
internal_shift(page, i, lo) ==
    IF i < lo THEN page
    ELSE internal_shift(internal_set_child_key(page, i + 1, internal_get_child(page, i),
                                               internal_get_key(page, i)),
                        i - 1, lo)

insert_internal_child(page, after_child_idx, key, right_page_id) ==
    LET n == internal_num_keys(page)
        last_child == internal_get_child(page, n)
        p1 == internal_shift(page, n - 1, after_child_idx + 1)
        p2 == internal_set_child_key(p1, after_child_idx + 1, right_page_id, key)
        p3 == internal_set_last_child(p2, n + 1, last_child)
    IN  internal_set_num_keys(p3, as_u16(n + 1))

\* for i in 0..(n - mid - 1) { set_child_key(new_page, i + 1, child(mid+2+i), key(mid+1+i)) }
RECURSIVE internal_move(_, _, _, _, _)
internal_move(new_page, page, i, cnt, mid) ==
    IF i >= cnt THEN new_page
    ELSE internal_move(internal_set_child_key(new_page, i + 1,
                                              internal_get_child(page, mid + 2 + i),
                                              internal_get_key(page, mid + 1 + i)),
                       page, i + 1, cnt, mid)

split_internal(h, pid, page) ==
    Bind(internal_num_keys(page), LAMBDA n :
    Bind(n \div 2, LAMBDA mid :
    Bind(internal_get_key(page, mid), LAMBDA promote_key :
    Bind(internal_move(internal_set_last_child(
                           internal_set_num_keys(Page_new(0, Internal), as_u16(n - mid - 1)),
                           0, internal_get_child(page, mid + 1)),
                       page, 0, n - mid - 1, mid), LAMBDA new_page :
        IF Panicked(new_page) THEN Ret(h, "Panic", 0, 0)
        ELSE Bind(append_page(h, new_page), LAMBDA ap :
             Bind(internal_set_num_keys(page, as_u16(mid)), LAMBDA p1 :
                IF Panicked(p1) THEN Ret(ap.h, "Panic", 0, 0)
                ELSE Ret(write_page(ap.h, pid, p1), "Some", promote_key, ap.id)))))))

split_root_self_child(h, promote_key, right_page_id) ==
    Bind(read_page(h, 0), LAMBDA left_page :
        IF ~left_page.ok THEN Ret(h, "Err", 0, 0)
        ELSE Bind(append_page(h, left_page.page), LAMBDA ap :
             Bind(ap.id, LAMBDA left_id :
             Bind(internal_set_child_key(
                      internal_set_last_child(
                          internal_set_num_keys(Page_new(0, Internal), 1), 0, 0),
                      1, right_page_id, promote_key), LAMBDA new_root :
                IF Panicked(new_root) THEN Ret(ap.h, "Panic", 0, 0)
                ELSE Ret(write_page(ap.h, 0, new_root), "None", 0, 0)))))

split_root(h, promote_key, right_page_id) ==
    Bind(read_page(h, 0), LAMBDA left_page :
        IF ~left_page.ok THEN Ret(h, "Err", 0, 0)
        ELSE Bind(append_page(h, left_page.page), LAMBDA ap :
             Bind(ap.id, LAMBDA left_id :
             Bind(internal_set_child_key(
                      internal_set_last_child(
                          internal_set_num_keys(Page_new(0, Internal), 1), 0, left_id),
                      1, right_page_id, promote_key), LAMBDA new_root :
                IF Panicked(new_root) THEN Ret(ap.h, "Panic", 0, 0)
                ELSE Ret(write_page(ap.h, 0, new_root), "None", 0, 0)))))

RECURSIVE insert_into(_, _, _, _, _)
insert_into(h, pid, key, value, depth) ==
    IF depth > h.num_pages THEN Ret(h, "Panic", 0, 0)
    ELSE Bind(read_page(h, pid), LAMBDA rp :
        IF ~rp.ok THEN Ret(h, "Err", 0, 0)
        ELSE Bind(rp.page, LAMBDA page :
            IF flags(page) = Leaf
            THEN Bind(leaf_num_entries(page), LAMBDA n :
                 Bind(leaf_find(page, 0, n, key), LAMBDA f :
                    IF f.dup THEN Ret(h, "DuplicateKey", 0, 0)
                    ELSE Bind(leaf_insert_at(page, f.idx, key, value), LAMBDA p1 :
                        IF Panicked(p1) THEN Ret(h, "Panic", 0, 0)
                        ELSE Bind(write_page(h, pid, p1), LAMBDA h1 :
                            IF n + 1 > leaf_max_entries THEN split_leaf(h1, pid, p1)
                            ELSE Ret(h1, "None", 0, 0)))))
            ELSE Bind(internal_num_keys(page), LAMBDA n :
                 Bind(route(page, 0, n, key), LAMBDA child_idx :
                 Bind(internal_get_child(page, child_idx), LAMBDA child_id :
                 Bind(insert_into(h, child_id, key, value, depth + 1), LAMBDA split :
                    IF split.st # "Some" THEN split
                    ELSE Bind(insert_internal_child(page, child_idx, split.key, split.pid),
                              LAMBDA p1 :
                        IF Panicked(p1) THEN Ret(split.h, "Panic", 0, 0)
                        ELSE IF internal_num_keys(p1) > internal_max_keys
                        THEN split_internal(split.h, pid, p1)
                        ELSE Ret(write_page(split.h, pid, p1), "None", 0, 0))))))))

\* Result<()> of insert: Ok(()) where the callee returned Ok(None)
Done(r) == [h |-> r.h, st |-> IF r.st = "None" THEN "Ok" ELSE r.st]

insert_unchecked(h, key, value) ==
    Bind(insert_into(h, 0, key, value, 0), LAMBDA r :
        IF r.st = "Some" THEN Done(split_root(r.h, r.key, r.pid)) ELSE Done(r))

\* BTree::insert: [h, st], st = "Ok" | "EmptyTree" | "DuplicateKey" | "Err" | "Panic"
insert(h, key, value) ==
    IF h.num_pages = 0 THEN [h |-> h, st |-> "EmptyTree"]
    ELSE Bind(insert_into(h, 0, key, value, 0), LAMBDA r :
            IF r.st = "Some" THEN Done(split_root(r.h, r.key, r.pid)) ELSE Done(r))

\* BTree::create: HeapFile::create, then alloc_empty_leaf
alloc_empty_leaf(h) ==
    LET p0 == Page_new(0, Leaf)
        p1 == leaf_set_next(p0, 0)
        page == leaf_set_num_entries(p1, 0)
    IN  append_page(h, page)

BTree_create == alloc_empty_leaf(HeapFile_create).h
BTree_open(file) == HeapFile_open(file)

(***************************************************************************)
(* The program as a state machine: one BTree over one index file.          *)
(***************************************************************************)
Handle == [pages |-> disk, num_pages |-> num_pages]

Op(op, key, end, ref, st, out) ==
    [op |-> op, key |-> key, end |-> end, ref |-> ref, st |-> st, out |-> out]

NoMap == [k \in {} |-> NoRef]
Put(m, k, r) == IF k \in DOMAIN m THEN m ELSE [x \in DOMAIN m \cup {k} |-> IF x = k THEN r ELSE m[x]]

\* the index file exists and is empty (a fresh temporary file); no BTree yet
Init ==
    /\ page_size = SmallPageSize
    /\ disk = <<>>
    /\ open = FALSE
    /\ num_pages = 0
    /\ created = FALSE
    /\ req = NoMap
    /\ inserted = NoMap
    /\ last = Op("init", 0, 0, NoRef, "Ok", <<>>)
    /\ hp = <<>>
    /\ rows = <<>>

\* BTree::create(path)
Create ==
    /\ ~open
    /\ LET h == BTree_create
       IN  /\ disk' = h.pages
           /\ num_pages' = h.num_pages
    /\ open' = TRUE
    /\ created' = TRUE
    /\ req' = NoMap
    /\ inserted' = NoMap
    /\ last' = Op("create", 0, 0, NoRef, "Ok", <<>>)
    /\ UNCHANGED <<page_size, hp, rows>>

\* BTree::open(path)
Open ==
    /\ ~open
    /\ LET r == BTree_open(disk)
       IN  /\ open' = r.ok
           /\ num_pages' = IF r.ok THEN r.h.num_pages ELSE num_pages
           /\ last' = Op("open", 0, 0, NoRef, IF r.ok THEN "Ok" ELSE "Err", <<>>)
    /\ UNCHANGED <<page_size, disk, created, req, inserted, hp, rows>>

\* the BTree value goes out of scope
Drop ==
    /\ open
    /\ open' = FALSE
    /\ last' = Op("drop", 0, 0, NoRef, "Ok", <<>>)
    /\ UNCHANGED <<page_size, disk, num_pages, created, req, inserted, hp, rows>>

\* BTree::insert(key, value); a panic unwinds and drops the BTree
Insert(key, value) ==
    /\ open
    /\ \E r \in {insert(Handle, key, value)} :
           /\ disk' = r.h.pages
           /\ num_pages' = r.h.num_pages
           /\ open' = (r.st # "Panic")
           /\ inserted' = IF r.st = "Ok" THEN Put(inserted, key, value) ELSE inserted
           /\ last' = Op("insert", key, 0, value, r.st, <<>>)
    /\ req' = IF created THEN Put(req, key, value) ELSE req
    /\ UNCHANGED <<page_size, created, hp, rows>>

\* BTree::get(key)
Get(key) ==
    /\ open
    /\ \E r \in {get(Handle, key)} :
           last' = Op("get", key, 0, r.ref, r.st, <<>>)
    /\ UNCHANGED <<page_size, disk, open, num_pages, created, req, inserted, hp, rows>>

\* BTree::range_scan(start, end)
RangeScan(start, end) ==
    /\ open
    /\ \E r \in {range_scan(Handle, start, end)} :
           last' = Op("range_scan", start, end, NoRef, r.st, r.out)
    /\ UNCHANGED <<page_size, disk, open, num_pages, created, req, inserted, hp, rows>>

Next ==
    \/ Create
    \/ Open
    \/ Drop
    \/ \E k \in Keys, r \in RowRefs : Insert(k, r)
    \/ \E k \in Keys : Get(k)
    \/ \E a \in Keys, b \in Keys : a < b /\ RangeScan(a, b)

Spec == Init /\ [][Next]_vars

(***************************************************************************)
(* Properties of the B-tree (Spec).                                        *)
(***************************************************************************)
\* L of the specification text, floor((PAGE_SIZE - 32 - 4 - 2) / 14)
ClaimL == (page_size - 32 - 4 - 2) \div 14

ExpectGet(m, k) ==
    IF k \in DOMAIN m THEN [st |-> "Some", ref |-> m[k]] ELSE [st |-> "None", ref |-> NoRef]

RECURSIVE ExpectScan(_, _, _)
ExpectScan(m, a, b) ==
    IF a >= b THEN <<>>
    ELSE (IF a \in DOMAIN m THEN <<[key |-> a, ref |-> m[a]]>> ELSE <<>>)
         \o ExpectScan(m, a + 1, b)

\* C1: on a created tree, after insert calls with pairwise distinct keys (any
\* number of them, so also more than one leaf holds), get(k) returns Some(r)
\* for every pair (k, r) handed to insert and None for every other key.
C1_GetReturnsEveryInsertedPair ==
    (created /\ last.op = "get")
        => [st |-> last.st, ref |-> last.ref] = ExpectGet(req, last.key)

NoKeyTwice ==
    \A p \in 1..Len(disk), q \in 1..Len(disk) :
        (flags(disk[p]) = Leaf /\ flags(disk[q]) = Leaf) =>
            \A i \in 0..(leaf_num_entries(disk[p]) - 1), j \in 0..(leaf_num_entries(disk[q]) - 1) :
                (leaf_get_key(disk[p], i) = leaf_get_key(disk[q], j)) => (p = q /\ i = j)

\* C3: insert of a key that an earlier insert stored fails with DuplicateKey
\* and changes neither num_pages nor any byte of any page; get(k) still
\* returns the RowRef inserted first; no key is stored in two leaf entries.
C3_DuplicateRejected ==
    /\ [][(open /\ last'.op = "insert" /\ last'.key \in DOMAIN inserted) =>
            /\ last'.st = "DuplicateKey"
            /\ disk' = disk
            /\ num_pages' = num_pages
            /\ get([pages |-> disk', num_pages |-> num_pages'], last'.key)
                   = [st |-> "Some", ref |-> inserted[last'.key]]]_vars
    /\ [](created => NoKeyTwice)

C3_Witness ==
    /\ last.op = "insert" /\ last.st = "DuplicateKey"
    /\ last.ref # inserted[last.key]
    /\ Cardinality(DOMAIN inserted) >= 2

\* C4: from a fresh tree, L+1 inserts of pairwise distinct keys all return
\* Ok (none panics on a slice that leaves the page buffer), and after the
\* (L+1)-th the file has more than one page.
C4_OverflowingInsertSplits ==
    (created /\ Cardinality(DOMAIN req) <= ClaimL + 1) =>
        /\ inserted = req
        /\ (Cardinality(DOMAIN req) = ClaimL + 1 => num_pages > 1)

\* C7: after drop, BTree::open on the same file yields the same num_pages
\* and, for every key, the same get result as before the drop.
C7_ReopenAnswersSame ==
    [][(created /\ ~open /\ last.op = "drop" /\ last'.op = "open") =>
        /\ open'
        /\ num_pages' = num_pages
        /\ \A k \in Keys :
              get([pages |-> disk', num_pages |-> num_pages'], k)
                  = get([pages |-> disk, num_pages |-> num_pages], k)
        /\ \A k \in Keys :
              get([pages |-> disk', num_pages |-> num_pages'], k) = ExpectGet(inserted, k)]_vars

C7_Witness ==
    /\ created /\ open /\ last.op = "open"
    /\ Cardinality(DOMAIN inserted) >= 2

C9_EmptyTreeRejected ==
    [][(open /\ num_pages = 0 /\ last'.op = "insert") =>
        /\ last'.st = "EmptyTree"
        /\ disk' = disk
        /\ num_pages' = 0]_vars

C9_Witness ==
    /\ open /\ last.op = "insert" /\ last.st = "EmptyTree"
    /\ num_pages = 0 /\ Len(disk) = 0

(***************************************************************************)
(* tests::btree_split_under_load at the real page size: the keys 0..499    *)
(* inserted in ascending order into a fresh tree.                          *)
(***************************************************************************)
LoadRef(i) == RowRef(i % 100, i % 10)

InitLoad ==
    /\ page_size = PAGE_SIZE
    /\ disk = BTree_create.pages
    /\ open = TRUE
    /\ num_pages = 1
    /\ created = TRUE
    /\ req = NoMap
    /\ inserted = NoMap
    /\ last = Op("create", 0, 0, NoRef, "Ok", <<>>)
    /\ hp = <<>>
    /\ rows = <<>>

\* the loop `for i in 0..n { bt.insert(i, ..).unwrap() }` from i up to j: the
\* first insert that is not Ok ends the test
RECURSIVE load(_, _, _)
load(h, i, j) ==
    IF i >= j THEN [h |-> h, st |-> "Ok", i |-> i]
    ELSE Bind(insert(h, i, LoadRef(i)), LAMBDA r :
            IF r.st # "Ok" THEN [h |-> r.h, st |-> r.st, i |-> i]
            ELSE load(r.h, i + 1, j))

LoadMap(n) == [k \in 0..(n - 1) |-> LoadRef(k)]

\* the next LoadStep iterations of the loop
LoadInsert ==
    /\ open
    /\ \E i \in {Cardinality(DOMAIN req)} :
           /\ i < LoadKeys
           /\ \E r \in {load(Handle, i, IF i + LoadStep < LoadKeys THEN i + LoadStep
                                        ELSE LoadKeys)} :
                  /\ disk' = r.h.pages
                  /\ num_pages' = r.h.num_pages
                  /\ open' = (r.st = "Ok")
                  /\ inserted' = LoadMap(r.i)
                  /\ req' = LoadMap(IF r.st = "Ok" THEN r.i ELSE r.i + 1)
                  /\ last' = Op("insert", IF r.st = "Ok" THEN r.i - 1 ELSE r.i, 0,
                                LoadRef(IF r.st = "Ok" THEN r.i - 1 ELSE r.i), r.st, <<>>)
    /\ UNCHANGED <<page_size, created, hp, rows>>

SpecLoad == InitLoad /\ [][LoadInsert]_vars

\* C5: after the inserts of 0, 1, ..., 499 (PAGE_SIZE = 8192), num_pages > 1
\* and get(i) returns the RowRef inserted for i, for every i in 0..500.
C5_SplitUnderLoad ==
    (Cardinality(DOMAIN req) = LoadKeys) =>
        /\ num_pages > 1
        /\ \A i \in 0..(LoadKeys - 1) : get(Handle, i) = [st |-> "Some", ref |-> LoadRef(i)]

(***************************************************************************)
(* The tail of BTree::insert when the split reaches page 0: insert_into    *)
(* has split the root leaf and returned Some((promote_key, right_page_id)), *)
(* and split_root installs the new root.  The leaf split is taken at any   *)
(* fill of the root leaf of at least two entries.                          *)
(***************************************************************************)
InitSplit ==
    /\ page_size = SmallPageSize
    /\ disk = BTree_create.pages
    /\ open = TRUE
    /\ num_pages = 1
    /\ created = TRUE
    /\ req = NoMap
    /\ inserted = NoMap
    /\ last = Op("create", 0, 0, NoRef, "Ok", <<>>)
    /\ hp = <<>>
    /\ rows = <<>>

\* insert_into's leaf branch from split_leaf on, for the root leaf
SplitLeaf ==
    /\ open
    /\ last.op # "split"
    /\ flags(disk[1]) = Leaf
    /\ leaf_num_entries(disk[1]) >= 2
    /\ \E r \in {split_leaf(Handle, 0, disk[1])} :
           /\ disk' = r.h.pages
           /\ num_pages' = r.h.num_pages
           /\ open' = (r.st # "Panic")
           /\ last' = Op("split", r.key, r.pid, NoRef, IF r.st = "Some" THEN "Ok" ELSE r.st, <<>>)
    /\ UNCHANGED <<page_size, created, req, inserted, hp, rows>>

\* if let Some((sk, sp)) = insert_into(..) { self.split_root(sk, sp)?; }
SplitRoot ==
    /\ open
    /\ last.op = "split"
    /\ last.st = "Ok"
    /\ \E r \in {Done(split_root(Handle, last.key, last.end))} :
           /\ disk' = r.h.pages
           /\ num_pages' = r.h.num_pages
           /\ open' = (r.st # "Panic")
           /\ last' = Op("split_root", last.key, last.end, NoRef, r.st, <<>>)
    /\ UNCHANGED <<page_size, created, req, inserted, hp, rows>>

NextSplit ==
    \/ \E key \in Keys, value \in RowRefs : last.op # "split" /\ Insert(key, value)
    \/ SplitLeaf
    \/ SplitRoot
    \/ \E key \in Keys : last.op # "split" /\ Get(key)

SpecSplitRoot == InitSplit /\ [][NextSplit]_vars

\* C6: when a split propagates out of page 0 with (promote_key, right_page_id),
\* the old page 0 is copied to a freshly appended page left_id, and page 0
\* becomes an Internal node with num_keys = 1, children left_id and
\* right_page_id, whose routing key equals promote_key: a lookup of a key
\* < promote_key is routed to left_id and a key >= promote_key to right_page_id.
C6_SplitRootRoutesByPromoteKey ==
    [][(last'.op = "split_root" /\ last'.st = "Ok") =>
        /\ num_pages' = num_pages + 1
        /\ disk'[num_pages + 1] = set_page_id(disk[1], num_pages)
        /\ flags(disk'[1]) = Internal
        /\ internal_num_keys(disk'[1]) = 1
        /\ internal_get_child(disk'[1], 0) = num_pages
        /\ internal_get_child(disk'[1], 1) = last.end
        /\ internal_get_key(disk'[1], 0) = last.key
        /\ \A k \in Keys :
              internal_get_child(disk'[1], route(disk'[1], 0, internal_num_keys(disk'[1]), k))
                  = IF k < last.key THEN num_pages ELSE last.end]_vars

(***************************************************************************)
(* One Heap page in memory: Page::new, then inserts of rows.  rows records *)
(* every insert that returned Some, as [slot, bytes].                      *)
(***************************************************************************)
PageRows == {<<>>, <<1>>, <<2, 3>>, <<4, 5, 6, 7, 8, 9, 10, 11, 12>>}

InitPage ==
    /\ page_size = HeapPageSize
    /\ hp = Page_new(0, Heap)
    /\ rows = <<>>
    /\ disk = <<>>
    /\ open = FALSE
    /\ num_pages = 0
    /\ created = FALSE
    /\ req = NoMap
    /\ inserted = NoMap
    /\ last = Op("new", 0, 0, NoRef, "Ok", <<>>)

\* Page::insert(row); last keeps the row (out), the free_space() before the
\* call (end) and the returned slot (key, -1 for None)
PageInsert(row) ==
    /\ ~Panicked(hp)
    /\ \E r \in {Page_insert(hp, row)} :
           /\ hp' = r.page
           /\ rows' = IF r.slot >= 0 /\ ~Panicked(r.page)
                      THEN Append(rows, [slot |-> r.slot, bytes |-> row])
                      ELSE rows
           /\ last' = Op("page_insert", r.slot, free_space(hp), NoRef,
                         IF Panicked(r.page) THEN "Panic"
                         ELSE IF r.slot >= 0 THEN "Some" ELSE "None", row)
    /\ UNCHANGED <<page_size, disk, open, num_pages, created, req, inserted>>

NextPage == \E row \in PageRows : PageInsert(row)

SpecPage == InitPage /\ [][NextPage]_vars

\* every row an insert has stored is what get_slot returns for its slot
RowsKept ==
    \A i \in 1..Len(rows) : get_slot(hp, rows[i].slot) = [some |-> TRUE, bytes |-> rows[i].bytes]

\* C10 as stated: on a Heap page, every insert(r) of a byte string of length
\* <= free_space() returns Some(slot), get_slot(slot) then returns r, and
\* keeps returning it after all later inserts.
C10_RoundTripUpToFreeSpace ==
    /\ (last.op = "page_insert" /\ Len(last.out) <= last.end) =>
           /\ last.st = "Some"
           /\ get_slot(hp, last.key) = [some |-> TRUE, bytes |-> last.out]
    /\ RowsKept

\* C10, amended: on a Heap page, every insert(r) of a byte string with
\* length + 4 <= free_space() returns Some(slot), get_slot(slot) then returns
\* r, and keeps returning it after all later inserts.
C10_RoundTripWithSlotReserve ==
    /\ (last.op = "page_insert" /\ Len(last.out) + SLOT_SIZE <= last.end) =>
           /\ last.st = "Some"
           /\ get_slot(hp, last.key) = [some |-> TRUE, bytes |-> last.out]
    /\ RowsKept

C10_Witness ==
    /\ last.op = "page_insert" /\ last.st = "Some"
    /\ Len(last.out) >= 1 /\ Len(last.out) + SLOT_SIZE <= last.end
    /\ Len(rows) >= 3
    /\ \E i \in 1..(Len(rows) - 1) : Len(rows[i].bytes) >= 1 /\ rows[i].bytes # last.out

(***************************************************************************)
(* The same Heap page with delete_slot as well.                            *)
(***************************************************************************)
\* Page::delete_slot(slot_id); last keeps slot_id (key) and the free_space()
\* before the call (end)
PageDelete(slot_id) ==
    /\ ~Panicked(hp)
    /\ \E r \in {delete_slot(hp, slot_id)} :
           /\ hp' = IF r.st = "Panic" THEN <<>> ELSE r.page
           /\ last' = Op("delete_slot", slot_id, free_space(hp), NoRef, r.st, <<>>)
    /\ UNCHANGED <<page_size, disk, open, num_pages, created, req, inserted, rows>>

NextPageOps ==
    \/ \E row \in PageRows : PageInsert(row)
    \/ \E slot_id \in 0..(raw_n_slots(hp) + 1) : PageDelete(slot_id)

SpecPageOps == InitPage /\ [][NextPageOps]_vars

\* C11: an insert of a payload of size s returns Some exactly when
\* free_space() >= s + 4 held before the call; free_space never increases,
\* whatever inserts and delete_slot calls happen; so once an insert of a payload
\* has returned None, every later insert of the same payload returns None.
C11_FillThenNoneForever ==
    /\ [](last.op = "page_insert" =>
            (last.st = "Some" <=> last.end >= Len(last.out) + SLOT_SIZE))
    /\ [][free_space(hp') <= free_space(hp)]_vars
    /\ \A row \in PageRows :
          []((last.op = "page_insert" /\ last.out = row /\ last.st = "None")
                => [](last.op = "page_insert" /\ last.out = row => last.st = "None"))

C11_Witness ==
    /\ last.op = "page_insert" /\ last.st = "None" /\ Len(last.out) = 1
    /\ Len(rows) >= 3
    /\ \E i \in 1..Len(rows) : get_slot(hp, rows[i].slot).bytes # rows[i].bytes

\* the slot directory entry slot_id of a page: (offset, length)
slot_entry(data, slot_id) ==
    [offset |-> u16_from_le_bytes(slice(data, SLOT_DIR_START + slot_id * SLOT_SIZE, 2)),
     len |-> u16_from_le_bytes(slice(data, SLOT_DIR_START + slot_id * SLOT_SIZE + 2, 2))]

\* C12: delete_slot(i) on a slot i < n_slots whose recorded length is >= 9
\* succeeds, sets the byte at offset 8 of that slot's row to 1 and changes
\* nothing else: the other bytes of slot i, the bytes of every other slot,
\* n_slots, free_end and free_space are unchanged, and get_slot(i) still
\* returns a row of the same length.
C12_DeleteSetsOnlyTombstone ==
    [][(/\ last'.op = "delete_slot"
        /\ last'.key < raw_n_slots(hp)
        /\ slot_entry(hp, last'.key).len >= ROW_HEADER_LEN) =>
           /\ last'.st = "Ok"
           /\ hp' = [hp EXCEPT ![slot_entry(hp, last'.key).offset + 8 + 1] = 1]
           /\ get_slot(hp', last'.key) =
                  [some |-> TRUE, bytes |-> [get_slot(hp, last'.key).bytes EXCEPT ![9] = 1]]
           /\ \A j \in 0..(raw_n_slots(hp) - 1) :
                  j # last'.key => get_slot(hp', j) = get_slot(hp, j)
           /\ raw_n_slots(hp') = raw_n_slots(hp)
           /\ free_end(hp') = free_end(hp)
           /\ free_space(hp') = free_space(hp)]_vars

C12_Witness ==
    /\ last.op = "delete_slot" /\ last.st = "Ok"
    /\ raw_n_slots(hp) >= 3
    /\ \E i \in 1..Len(rows) :
          /\ rows[i].slot = last.key
          /\ Len(rows[i].bytes) >= ROW_HEADER_LEN
          /\ rows[i].bytes[9] # 1
          /\ get_slot(hp, last.key).bytes = [rows[i].bytes EXCEPT ![9] = 1]
    /\ \E i \in 1..Len(rows) :
          /\ rows[i].slot # last.key
          /\ Len(rows[i].bytes) >= 1
          /\ get_slot(hp, rows[i].slot).bytes = rows[i].bytes

\* C13: delete_slot(i) fails with InvalidSlot when i >= n_slots and with
\* RowTooShort when slot i's recorded length is less than the 9-byte row
\* header; in both cases the page is left byte for byte unchanged.
C13_DeleteErrorsLeavePage ==
    [][last'.op = "delete_slot" =>
          /\ (last'.key >= raw_n_slots(hp)) =>
                 (last'.st = "InvalidSlot" /\ hp' = hp)
          /\ (last'.key < raw_n_slots(hp) /\ slot_entry(hp, last'.key).len < ROW_HEADER_LEN) =>
                 (last'.st = "RowTooShort" /\ hp' = hp)
          /\ (last'.st \in {"InvalidSlot", "RowTooShort"}) => hp' = hp]_vars

C13_Witness ==
    /\ last.op = "delete_slot" /\ last.st = "RowTooShort"
    /\ slot_entry(hp, last.key).len = 2
    /\ last.key + 1 < raw_n_slots(hp)
    /\ \E i \in 1..Len(rows) : get_slot(hp, rows[i].slot).bytes # rows[i].bytes

\* C14: on a Heap page created by Page::new, the k-th successful insert
\* (counting from 0) returns slot index k and n_slots is k + 1 afterwards; a
\* failed insert consumes no index and delete_slot frees none.
C14_SlotsDense ==
    /\ [](/\ raw_n_slots(hp) = Len(rows)
          /\ \A k \in 1..Len(rows) : rows[k].slot = k - 1)
    /\ [][(last'.op = "page_insert" /\ last'.st = "Some") =>
              (last'.key = Len(rows) /\ raw_n_slots(hp') = Len(rows) + 1)]_vars
    /\ [][(last'.op = "delete_slot" \/ last'.st = "None") =>
              raw_n_slots(hp') = raw_n_slots(hp)]_vars

C14_Witness ==
    /\ last.op = "page_insert" /\ last.st = "Some" /\ last.key = 3
    /\ raw_n_slots(hp) = 4
    /\ get_slot(hp, 2).some /\ get_slot(hp, 2).bytes # rows[3].bytes

(***************************************************************************)
(* The heap file alone: create, open, drop, append_page, read_page.  rows  *)
(* records every append_page call since create as [id, page]: the id it    *)
(* returned and the page it was handed.                                    *)
(***************************************************************************)
HeapPages ==
    {Page_new(3, Heap),
     Page_insert(Page_new(7, Heap), <<1>>).page,
     Page_insert(Page_insert(Page_new(0, Heap), <<2, 3>>).page,
                 <<4, 5, 6, 7, 8, 9, 10, 11, 12>>).page}

\* HeapFile::create(path): the file is truncated
HeapCreate ==
    /\ disk' = HeapFile_create.pages
    /\ num_pages' = HeapFile_create.num_pages
    /\ open' = TRUE
    /\ created' = TRUE
    /\ rows' = <<>>
    /\ last' = Op("create", 0, 0, NoRef, "Ok", <<>>)
    /\ UNCHANGED <<page_size, req, inserted, hp>>

\* HeapFile::open(path)
HeapOpen ==
    /\ ~open
    /\ \E r \in {HeapFile_open(disk)} :
           /\ open' = r.ok
           /\ num_pages' = IF r.ok THEN r.h.num_pages ELSE num_pages
           /\ last' = Op("open", 0, 0, NoRef, IF r.ok THEN "Ok" ELSE "Err", <<>>)
    /\ UNCHANGED <<page_size, disk, created, req, inserted, hp, rows>>

\* HeapFile::append_page(&page)
HeapAppend(page) ==
    /\ open
    /\ num_pages < MaxHeapPages
    /\ \E r \in {append_page(Handle, page)} :
           /\ disk' = r.h.pages
           /\ num_pages' = r.h.num_pages
           /\ rows' = Append(rows, [id |-> r.id, page |-> page])
           /\ last' = Op("append_page", r.id, 0, NoRef, "Ok", page)
    /\ UNCHANGED <<page_size, open, created, req, inserted, hp>>

\* HeapFile::read_page(page_id)
HeapRead(id) ==
    /\ open
    /\ \E r \in {read_page(Handle, id)} :
           last' = Op("read_page", id, 0, NoRef, IF r.ok THEN "Ok" ELSE r.err, r.page)
    /\ UNCHANGED <<page_size, disk, open, num_pages, created, req, inserted, hp, rows>>

NextHeap ==
    \/ HeapCreate
    \/ HeapOpen
    \/ Drop
    \/ \E page \in HeapPages : HeapAppend(page)
    \/ \E id \in 0..MaxHeapPages : HeapRead(id)

SpecHeap == Init /\ [][NextHeap]_vars

\* C15: on a HeapFile with num_pages = n, append_page(p) returns n, stores at
\* position n a page whose page_id field is n and whose other bytes equal
\* those of p, and leaves num_pages = n + 1; pages at positions < n are not
\* modified, and from create the returned ids are 0, 1, 2, ... in call order.
C15_AppendAssignsNextId ==
    /\ [][last'.op = "append_page" =>
              /\ last'.key = num_pages
              /\ num_pages' = num_pages + 1
              /\ Len(disk') = num_pages + 1
              /\ page_id(disk'[num_pages + 1]) = num_pages
              /\ \A o \in 1..page_size :
                     (o <= OFFSET_PAGE_ID \/ o > OFFSET_PAGE_ID + 4) =>
                         disk'[num_pages + 1][o] = last'.out[o]
              /\ \A i \in 1..num_pages : disk'[i] = disk[i]]_vars
    /\ [](\A k \in 1..Len(rows) : rows[k].id = k - 1)

C15_Witness ==
    /\ last.op = "append_page" /\ last.key = 2 /\ num_pages = 3
    /\ page_id(last.out) = 7 /\ raw_n_slots(last.out) = 1
    /\ page_id(disk[3]) = 2
    /\ disk[1] # disk[2]

\* C16: after create, append_page(P0) ... append_page(Pn), dropping the
\* HeapFile and open on the same path: num_pages() = n + 1 and for every i in
\* 0..=n read_page(i) succeeds with page_id = i and with the n_slots and slot
\* contents of Pi.
C16_ReopenReadsAppendedPages ==
    (created /\ last.op = "open") =>
        /\ last.st = "Ok"
        /\ open
        /\ num_pages = Len(rows)
        /\ \A i \in 0..(Len(rows) - 1) :
              /\ read_page(Handle, i).ok
              /\ page_id(read_page(Handle, i).page) = i
              /\ raw_n_slots(read_page(Handle, i).page) = raw_n_slots(rows[i + 1].page)
              /\ \A s \in 0..(raw_n_slots(rows[i + 1].page) - 1) :
                     get_slot(read_page(Handle, i).page, s) = get_slot(rows[i + 1].page, s)

C16_Witness ==
    /\ created /\ last.op = "open" /\ last.st = "Ok"
    /\ Len(rows) = 3
    /\ raw_n_slots(rows[1].page) = 2 /\ raw_n_slots(rows[2].page) = 1
    /\ page_id(rows[2].page) = 7 /\ page_id(disk[2]) = 1
    /\ get_slot(disk[1], 1).bytes = <<4, 5, 6, 7, 8, 9, 10, 11, 12>>

(***************************************************************************)
(* The heap file with write_page(id, page), id < num_pages, as well.       *)
(***************************************************************************)
HeapWrite(id, page) ==
    /\ open
    /\ id < num_pages
    /\ \E h \in {write_page(Handle, id, page)} :
           /\ disk' = h.pages
           /\ num_pages' = h.num_pages
    /\ rows' = [k \in 1..Len(rows) |-> IF k = id + 1 THEN [id |-> id, page |-> page] ELSE rows[k]]
    /\ last' = Op("write_page", id, 0, NoRef, "Ok", page)
    /\ UNCHANGED <<page_size, open, created, req, inserted, hp>>

NextHeapWrite ==
    \/ NextHeap
    \/ \E id \in 0..MaxHeapPages, page \in HeapPages : HeapWrite(id, page)

SpecHeapWrite == Init /\ [][NextHeapWrite]_vars

\* C17: in every state reached by create, open, append_page and
\* write_page(id < num_pages), the file's length equals num_pages * PAGE_SIZE,
\* and read_page(id) succeeds exactly for id < num_pages, failing with
\* PageOutOfRange for id >= num_pages.
C17_FileLengthAndReadRange ==
    open =>
        /\ Len(disk) * page_size = num_pages * page_size
        /\ \A id \in 0..(MaxHeapPages + 1) :
              /\ read_page(Handle, id).ok <=> id < num_pages
              /\ id >= num_pages => read_page(Handle, id).err = "PageOutOfRange"
        /\ last.op = "read_page" =>
              last.st = IF last.key < num_pages THEN "Ok" ELSE "PageOutOfRange"

C17_Witness ==
    /\ open /\ last.op = "read_page" /\ last.st = "PageOutOfRange" /\ last.key = 2
    /\ num_pages = 2 /\ Len(disk) = 2
    /\ page_id(disk[1]) = 7

(***************************************************************************)
(* row.rs: the row codec.  A Value is a record [kind, n, s, b] of which    *)
(* the field named by its kind counts; a Text is its UTF-8 bytes.  Text    *)
(* values of the model are made of one- and two-byte characters, and their *)
(* length stays far below 2^32, so that `b.len() as u32` is b.len().       *)
(***************************************************************************)
Value_Int(n) == [kind |-> "Int", n |-> n, s |-> <<>>, b |-> FALSE]
Value_Text(s) == [kind |-> "Text", n |-> 0, s |-> s, b |-> FALSE]
Value_Bool(b) == [kind |-> "Bool", n |-> 0, s |-> <<>>, b |-> b]

u64_from_le_bytes(b) == b[1] + 256 * b[2] + 65536 * b[3] + 16777216 * b[4]

\* String::from_utf8 on one- and two-byte characters
RECURSIVE from_utf8_ok(_, _)
from_utf8_ok(b, i) ==
    IF i > Len(b) THEN TRUE
    ELSE IF b[i] < 128 THEN from_utf8_ok(b, i + 1)
    ELSE IF b[i] >= 194 /\ b[i] <= 223 /\ i + 1 <= Len(b) /\ b[i + 1] >= 128 /\ b[i + 1] <= 191
    THEN from_utf8_ok(b, i + 2)
    ELSE FALSE

encode_value_short_len(ty, v) ==
    IF ty = "Int" /\ v.kind = "Int" THEN [ok |-> TRUE, bytes |-> to_le_bytes(v.n, 8)]
    ELSE IF ty = "Text" /\ v.kind = "Text"
    THEN [ok |-> TRUE, bytes |-> to_le_bytes(Len(v.s), 2) \o v.s]
    ELSE IF ty = "Bool" /\ v.kind = "Bool"
    THEN [ok |-> TRUE, bytes |-> <<IF v.b THEN 1 ELSE 0>>]
    ELSE [ok |-> FALSE, bytes |-> <<>>]

encode_value(ty, v) ==
    IF ty = "Int" /\ v.kind = "Int" THEN [ok |-> TRUE, bytes |-> to_le_bytes(v.n, 8)]
    ELSE IF ty = "Text" /\ v.kind = "Text"
    THEN [ok |-> TRUE, bytes |-> to_le_bytes(Len(v.s), 4) \o v.s]
    ELSE IF ty = "Bool" /\ v.kind = "Bool"
    THEN [ok |-> TRUE, bytes |-> <<IF v.b THEN 1 ELSE 0>>]
    ELSE [ok |-> FALSE, bytes |-> <<>>]

\* for (ty, v) in schema.iter().zip(values.iter()) { encode_value(&mut buf, ty, v)?; }
RECURSIVE encode_values(_, _, _, _)
encode_values(schema, values, i, buf) ==
    IF i > Len(schema) THEN [ok |-> TRUE, bytes |-> buf, err |-> "None"]
    ELSE Bind(encode_value(schema[i], values[i]), LAMBDA r :
            IF ~r.ok THEN [ok |-> FALSE, bytes |-> <<>>, err |-> "TypeMismatch"]
            ELSE encode_values(schema, values, i + 1, buf \o r.bytes))

encode(schema, values, txn_id, tombstone) ==
    IF Len(schema) # Len(values)
    THEN [ok |-> FALSE, bytes |-> <<>>, err |-> "SchemaMismatch"]
    ELSE encode_values(schema, values, 1, to_le_bytes(txn_id, 8) \o <<tombstone>>)

\* read_exact of n bytes at the cursor position pos
read_exact_ok(bytes, pos, n) == pos + n <= Len(bytes)

\* [ok, v, pos, err]: the value and the cursor position after it
decode_value(bytes, pos, ty) ==
    IF ty = "Int"
    THEN IF ~read_exact_ok(bytes, pos, 8)
         THEN [ok |-> FALSE, v |-> Value_Int(0), pos |-> pos, err |-> "TruncatedField"]
         ELSE [ok |-> TRUE, v |-> Value_Int(i64_from_le_bytes(slice(bytes, pos, 8))),
               pos |-> pos + 8, err |-> "None"]
    ELSE IF ty = "Text"
    THEN IF ~read_exact_ok(bytes, pos, 4)
         THEN [ok |-> FALSE, v |-> Value_Int(0), pos |-> pos, err |-> "TruncatedField"]
         ELSE Bind(u32_from_le_bytes(slice(bytes, pos, 4)), LAMBDA len :
              IF ~read_exact_ok(bytes, pos + 4, len)
              THEN [ok |-> FALSE, v |-> Value_Int(0), pos |-> pos, err |-> "TruncatedField"]
              ELSE IF ~from_utf8_ok(slice(bytes, pos + 4, len), 1)
              THEN [ok |-> FALSE, v |-> Value_Int(0), pos |-> pos, err |-> "BadUtf8"]
              ELSE [ok |-> TRUE, v |-> Value_Text(slice(bytes, pos + 4, len)),
                    pos |-> pos + 4 + len, err |-> "None"])
    ELSE IF ~read_exact_ok(bytes, pos, 1)
         THEN [ok |-> FALSE, v |-> Value_Int(0), pos |-> pos, err |-> "TruncatedField"]
         ELSE [ok |-> TRUE, v |-> Value_Bool(bytes[pos + 1] # 0), pos |-> pos + 1, err |-> "None"]

\* for ty in schema { values.push(decode_value(&mut c, ty)?); }
RECURSIVE decode_values(_, _, _, _, _)
decode_values(schema, bytes, pos, i, values) ==
    IF i > Len(schema) THEN [ok |-> TRUE, values |-> values, err |-> "None"]
    ELSE Bind(decode_value(bytes, pos, schema[i]), LAMBDA r :
            IF ~r.ok THEN [ok |-> FALSE, values |-> <<>>, err |-> r.err]
            ELSE decode_values(schema, bytes, r.pos, i + 1, Append(values, r.v)))

\* [ok, txn_id, tombstone, values, err]
decode(schema, bytes) ==
    IF Len(bytes) < ROW_HEADER_LEN
    THEN [ok |-> FALSE, txn_id |-> 0, tombstone |-> 0, values |-> <<>>, err |-> "ShortRow"]
    ELSE Bind(decode_values(schema, bytes, ROW_HEADER_LEN, 1, <<>>), LAMBDA r :
            [ok |-> r.ok,
             txn_id |-> IF r.ok THEN u64_from_le_bytes(slice(bytes, 0, 8)) ELSE 0,
             tombstone |-> IF r.ok THEN bytes[9] ELSE 0,
             values |-> r.values, err |-> r.err])

(***************************************************************************)
(* The codec on its inputs: a schema and a value sequence of at most       *)
(* MaxCols columns each, a txn_id and a tombstone; encode, then decode of  *)
(* the encoded bytes.  hp holds the encoded row.                           *)
(***************************************************************************)
ColumnTypes == {"Int", "Text", "Bool"}
RowValues ==
    {Value_Int(0 - 1), Value_Int(42), Value_Text(<<>>), Value_Text(<<104>>),
     Value_Text(<<104, 195, 169>>), Value_Bool(TRUE), Value_Bool(FALSE)}
TxnIds == {1, 258}
Tombstones == {0, 1}
SeqsUpTo(S, n) == UNION {[1..k -> S] : k \in 0..n}

NoDecoded == [ok |-> FALSE, txn_id |-> 0, tombstone |-> 0, values |-> <<>>, err |-> "None"]

RowOp(op, schema, values, txn_id, tombstone, st, d) ==
    [op |-> op, schema |-> schema, values |-> values, txn_id |-> txn_id,
     tombstone |-> tombstone, st |-> st, d |-> d]

InitRow ==
    /\ page_size = HeapPageSize
    /\ hp = <<>>
    /\ rows = <<>>
    /\ disk = <<>>
    /\ open = FALSE
    /\ num_pages = 0
    /\ created = FALSE
    /\ req = NoMap
    /\ inserted = NoMap
    /\ \E schema \in SeqsUpTo(ColumnTypes, MaxCols), values \in SeqsUpTo(RowValues, MaxCols),
          txn_id \in TxnIds, tombstone \in Tombstones :
          last = RowOp("input", schema, values, txn_id, tombstone, "Ok", NoDecoded)

\* row::encode(schema, values, txn_id, tombstone)
RowEncode ==
    /\ last.op = "input"
    /\ \E r \in {encode(last.schema, last.values, last.txn_id, last.tombstone)} :
           /\ hp' = r.bytes
           /\ last' = [last EXCEPT !.op = "encoded", !.st = IF r.ok THEN "Ok" ELSE r.err]
    /\ UNCHANGED <<page_size, disk, open, num_pages, created, req, inserted, rows>>

\* row::decode(schema, bytes) of the encoded row
RowDecode ==
    /\ last.op = "encoded"
    /\ last.st = "Ok"
    /\ \E d \in {decode(last.schema, hp)} :
           last' = [last EXCEPT !.op = "decoded", !.st = IF d.ok THEN "Ok" ELSE d.err, !.d = d]
    /\ UNCHANGED <<page_size, disk, open, num_pages, created, req, inserted, hp, rows>>

NextRow == RowEncode \/ RowDecode

SpecRow == InitRow /\ [][NextRow]_vars

\* the value sequence has the schema's length and kinds
Conforms(schema, values) ==
    /\ Len(schema) = Len(values)
    /\ \A i \in 1..Len(schema) : values[i].kind = schema[i]

\* C18: for every schema over {Int, Text, Bool}, every value sequence that
\* conforms to it and every (txn_id, tombstone): encode succeeds, its first 9
\* bytes are txn_id (u64 LE) followed by tombstone, and decode of the encoded
\* bytes returns exactly (txn_id, tombstone, values).
C18_EncodeDecodeRoundTrip ==
    (last.op # "input" /\ Conforms(last.schema, last.values)) =>
        /\ last.st = "Ok"
        /\ Len(hp) >= ROW_HEADER_LEN
        /\ hp[1] = last.txn_id % 256 /\ hp[2] = (last.txn_id \div 256) % 256
        /\ \A i \in 3..8 : hp[i] = 0
        /\ hp[9] = last.tombstone
        /\ last.op = "decoded" =>
              /\ last.d.ok
              /\ last.d.txn_id = last.txn_id
              /\ last.d.tombstone = last.tombstone
              /\ last.d.values = last.values

C18_Witness ==
    /\ last.op = "decoded" /\ last.st = "Ok"
    /\ last.schema = <<"Text", "Int">>
    /\ last.values = <<Value_Text(<<104, 195, 169>>), Value_Int(0 - 1)>>
    /\ last.txn_id = 258 /\ last.tombstone = 1
    /\ Len(hp) = ROW_HEADER_LEN + 4 + 3 + 8

\* the keys stored in the leaves below page pid
RECURSIVE SubtreeKeys(_, _)
SubtreeKeys(pid, depth) ==
    IF depth > Len(disk) \/ pid >= Len(disk) THEN {}
    ELSE IF flags(disk[pid + 1]) = Leaf
    THEN {leaf_get_key(disk[pid + 1], i) : i \in 0..(leaf_num_entries(disk[pid + 1]) - 1)}
    ELSE UNION {SubtreeKeys(internal_get_child(disk[pid + 1], i), depth + 1) :
                    i \in 0..internal_num_keys(disk[pid + 1])}

\* C19: every Internal page with k keys has k + 1 child pointers that designate
\* existing pages, its keys are strictly ascending, and for each i every key in
\* the subtree of child[i] is < key[i] and every key in the subtree of
\* child[i+1] is >= key[i].
C19_InternalNodesSeparate ==
    open =>
        \A p \in 1..Len(disk) :
            flags(disk[p]) = Internal =>
                /\ \A i \in 0..internal_num_keys(disk[p]) :
                       internal_get_child(disk[p], i) < num_pages
                /\ \A i \in 0..(internal_num_keys(disk[p]) - 2) :
                       internal_get_key(disk[p], i) < internal_get_key(disk[p], i + 1)
                /\ \A i \in 0..(internal_num_keys(disk[p]) - 1) :
                       /\ \A k \in SubtreeKeys(internal_get_child(disk[p], i), 0) :
                              k < internal_get_key(disk[p], i)
                       /\ \A k \in SubtreeKeys(internal_get_child(disk[p], i + 1), 0) :
                              k >= internal_get_key(disk[p], i)

(***************************************************************************)
(* insert_into's internal branch at the root when the leaf child it        *)
(* descended into has split: split_leaf's result (split_key, new_page_id)  *)
(* is spliced into the root by insert_internal_child.  As in SplitLeaf,    *)
(* the leaf split is taken at any fill of at least two entries.            *)
(***************************************************************************)
SplitChild(child_idx) ==
    /\ open
    /\ last.op # "split"
    /\ flags(disk[1]) = Internal
    /\ child_idx <= internal_num_keys(disk[1])
    /\ internal_get_child(disk[1], child_idx) \in 1..(num_pages - 1)
    /\ flags(disk[internal_get_child(disk[1], child_idx) + 1]) = Leaf
    /\ leaf_num_entries(disk[internal_get_child(disk[1], child_idx) + 1]) >= 2
    /\ \E split \in {split_leaf(Handle, internal_get_child(disk[1], child_idx),
                                disk[internal_get_child(disk[1], child_idx) + 1])} :
       \E p1 \in {insert_internal_child(disk[1], child_idx, split.key, split.pid)} :
       \E r \in {IF split.st # "Some" THEN Done(split)
                 ELSE IF Panicked(p1) THEN Done(Ret(split.h, "Panic", 0, 0))
                 ELSE IF internal_num_keys(p1) > internal_max_keys
                 THEN Bind(split_internal(split.h, 0, p1), LAMBDA s :
                          IF s.st = "Some" THEN Done(split_root(s.h, s.key, s.pid)) ELSE Done(s))
                 ELSE Done(Ret(write_page(split.h, 0, p1), "None", 0, 0))} :
           /\ disk' = r.h.pages
           /\ num_pages' = r.h.num_pages
           /\ open' = (r.st # "Panic")
           /\ last' = Op("split_child", split.key, split.pid, NoRef, r.st, <<child_idx>>)
    /\ UNCHANGED <<page_size, created, req, inserted, hp, rows>>

NextSplitChild ==
    \/ NextSplit
    \/ \E child_idx \in 0..internal_max_keys : SplitChild(child_idx)

SpecSplitChild == InitSplit /\ [][NextSplitChild]_vars

\* C20: after the leaf child at index c of an internal node with keys
\* k_0..k_{n-1} and children ch_0..ch_n has split with (split_key, new_page_id),
\* the parent has the n + 1 keys k_0..k_{c-1}, split_key, k_c..k_{n-1} and the
\* n + 2 children ch_0..ch_c, new_page_id, ch_{c+1}..ch_n, for every c, c = n
\* included.
C20_SplitChildSplicedIntoParent ==
    [][(last'.op = "split_child" /\ last'.st = "Ok"
            /\ internal_num_keys(disk[1]) < internal_max_keys) =>
          /\ flags(disk'[1]) = Internal
          /\ internal_num_keys(disk'[1]) = internal_num_keys(disk[1]) + 1
          /\ \A i \in 0..internal_num_keys(disk[1]) :
                internal_get_key(disk'[1], i) =
                    IF i < last'.out[1] THEN internal_get_key(disk[1], i)
                    ELSE IF i = last'.out[1] THEN last'.key
                    ELSE internal_get_key(disk[1], i - 1)
          /\ \A i \in 0..(internal_num_keys(disk[1]) + 1) :
                internal_get_child(disk'[1], i) =
                    IF i <= last'.out[1] THEN internal_get_child(disk[1], i)
                    ELSE IF i = last'.out[1] + 1 THEN last'.end
                    ELSE internal_get_child(disk[1], i - 1)]_vars

(***************************************************************************)
(* split_leaf on a root leaf of up to three entries: the page size is      *)
(* chosen so that a leaf holds an odd number of entries when it is split.  *)
(***************************************************************************)
InitSplitLeaf ==
    /\ page_size = LeafSplitPageSize
    /\ disk = BTree_create.pages
    /\ open = TRUE
    /\ num_pages = 1
    /\ created = TRUE
    /\ req = NoMap
    /\ inserted = NoMap
    /\ last = Op("create", 0, 0, NoRef, "Ok", <<>>)
    /\ hp = <<>>
    /\ rows = <<>>

SpecSplitLeaf == InitSplitLeaf /\ [][NextSplit]_vars

\* entry idx of a leaf page: (key, RowRef)
leaf_entry(page, idx) == [key |-> leaf_get_key(page, idx), ref |-> leaf_get_ref(page, idx)]

\* C21: when a leaf holding n entries is split, mid = floor(n / 2); the old
\* leaf keeps entries [0, mid) and the freshly appended leaf receives entries
\* [mid, n) in the same order, both halves are non-empty, no entry is
\* lost or duplicated, and the split key returned is key[mid] of the pre-split
\* leaf, the smallest key of the new right leaf.
C21_SplitLeafHalves ==
    [][(last'.op = "split" /\ last'.st = "Ok") =>
        \E n \in {leaf_num_entries(disk[1])} : \E mid \in {n \div 2} :
            /\ last'.end = num_pages
            /\ num_pages' = num_pages + 1
            /\ Len(disk') = num_pages + 1
            /\ flags(disk'[1]) = Leaf
            /\ flags(disk'[last'.end + 1]) = Leaf
            /\ leaf_num_entries(disk'[1]) = mid
            /\ leaf_num_entries(disk'[last'.end + 1]) = n - mid
            /\ \A i \in 0..(mid - 1) : leaf_entry(disk'[1], i) = leaf_entry(disk[1], i)
            /\ \A i \in 0..(n - mid - 1) :
                   leaf_entry(disk'[last'.end + 1], i) = leaf_entry(disk[1], mid + i)
            /\ mid >= 1 /\ n - mid >= 1
            /\ last'.key = leaf_get_key(disk[1], mid)
            /\ last'.key = leaf_get_key(disk'[last'.end + 1], 0)
            /\ \A i \in 0..(n - mid - 1) : last'.key <= leaf_get_key(disk'[last'.end + 1], i)]_vars

C21_Witness ==
    /\ last.op = "split" /\ last.st = "Ok" /\ last.key = 0 /\ last.end = 1
    /\ leaf_num_entries(disk[1]) = 1 /\ leaf_num_entries(disk[2]) = 2
    /\ leaf_entry(disk[1], 0) = [key |-> 0 - 1, ref |-> RowRef(2, 1)]
    /\ leaf_entry(disk[2], 0) = [key |-> 0, ref |-> RowRef(1, 0)]
    /\ leaf_entry(disk[2], 1) = [key |-> 1, ref |-> RowRef(2, 1)]

\* key i and child i of a node after (split_key, new_page_id) of its child c
\* has been spliced in as C20 states it
SpliceKey(page, c, split_key, i) ==
    IF i < c THEN internal_get_key(page, i)
    ELSE IF i = c THEN split_key
    ELSE internal_get_key(page, i - 1)

SpliceChild(page, c, new_page_id, i) ==
    IF i <= c THEN internal_get_child(page, i)
    ELSE IF i = c + 1 THEN new_page_id
    ELSE internal_get_child(page, i - 1)

\* C22: when the splice of a split child raises an internal node (here the
\* root) to n > I keys, the node is split without error and without a write
\* outside the page buffer: with mid = floor(n / 2), the left node keeps
\* keys[0..mid) and children[0..=mid], the freshly appended right node has
\* n - mid - 1 keys key[mid+1..n) and the children child[mid+1..=n], and
\* key[mid] is stored in neither but handed upward with right_id (at the root:
\* to split_root, which moves the left node to a fresh page).
C22_SplitInternalHalves ==
    [][(last'.op = "split_child" /\ internal_num_keys(disk[1]) >= internal_max_keys) =>
        \E n \in {internal_num_keys(disk[1]) + 1} : \E mid \in {n \div 2} :
        \E c \in {last'.out[1]} : \E right_id \in {num_pages + 1} : \E left_id \in {num_pages + 2} :
            /\ last'.st = "Ok"
            /\ num_pages' = num_pages + 3
            /\ flags(disk'[right_id + 1]) = Internal
            /\ internal_num_keys(disk'[right_id + 1]) = n - mid - 1
            /\ \A i \in 0..(n - mid - 2) :
                   internal_get_key(disk'[right_id + 1], i) =
                       SpliceKey(disk[1], c, last'.key, mid + 1 + i)
            /\ \A i \in 0..(n - mid - 1) :
                   internal_get_child(disk'[right_id + 1], i) =
                       SpliceChild(disk[1], c, last'.end, mid + 1 + i)
            /\ flags(disk'[left_id + 1]) = Internal
            /\ internal_num_keys(disk'[left_id + 1]) = mid
            /\ \A i \in 0..(mid - 1) :
                   internal_get_key(disk'[left_id + 1], i) = SpliceKey(disk[1], c, last'.key, i)
            /\ \A i \in 0..mid :
                   internal_get_child(disk'[left_id + 1], i) = SpliceChild(disk[1], c, last'.end, i)
            /\ flags(disk'[1]) = Internal
            /\ internal_num_keys(disk'[1]) = 1
            /\ internal_get_key(disk'[1], 0) = SpliceKey(disk[1], c, last'.key, mid)
            /\ internal_get_child(disk'[1], 0) = left_id
            /\ internal_get_child(disk'[1], 1) = right_id]_vars

\* the leaf reached from page pid by child[0] pointers; -1 when none is
RECURSIVE LeftmostLeaf(_, _)
LeftmostLeaf(pid, depth) ==
    IF depth > Len(disk) \/ pid >= Len(disk) THEN 0 - 1
    ELSE IF flags(disk[pid + 1]) = Leaf THEN pid
    ELSE LeftmostLeaf(internal_get_child(disk[pid + 1], 0), depth + 1)

\* the Leaf pages reachable from page pid by child pointers
RECURSIVE TreeLeaves(_, _)
TreeLeaves(pid, depth) ==
    IF depth > Len(disk) \/ pid >= Len(disk) THEN {}
    ELSE IF flags(disk[pid + 1]) = Leaf THEN {pid}
    ELSE UNION {TreeLeaves(internal_get_child(disk[pid + 1], i), depth + 1) :
                    i \in 0..internal_num_keys(disk[pid + 1])}

\* the page ids met by following next_leaf from page pid, up to the first id
\* that is no Leaf of the file or whose next_leaf is 0
RECURSIVE LeafChain(_, _)
LeafChain(pid, depth) ==
    IF depth > Len(disk) \/ pid < 0 \/ pid >= Len(disk) THEN <<pid>>
    ELSE IF flags(disk[pid + 1]) # Leaf THEN <<pid>>
    ELSE IF leaf_next(disk[pid + 1]) = 0 THEN <<pid>>
    ELSE <<pid>> \o LeafChain(leaf_next(disk[pid + 1]), depth + 1)

\* the keys of the leaves of a chain, in chain order
RECURSIVE ChainKeys(_, _)
ChainKeys(chain, j) ==
    IF j > Len(chain) THEN <<>>
    ELSE [i \in 1..leaf_num_entries(disk[chain[j] + 1]) |-> leaf_get_key(disk[chain[j] + 1], i - 1)]
         \o ChainKeys(chain, j + 1)

ChainOk(chain) ==
    /\ \A j \in 1..Len(chain) :
           /\ chain[j] >= 0 /\ chain[j] < num_pages /\ chain[j] < Len(disk)
           /\ flags(disk[chain[j] + 1]) = Leaf
    /\ \A i \in 1..Len(chain), j \in 1..Len(chain) : chain[i] = chain[j] => i = j
    /\ leaf_next(disk[chain[Len(chain)] + 1]) = 0

\* C23: after create and successful inserts, following next_leaf from the
\* leftmost leaf visits every Leaf page of the tree exactly once, in ascending
\* key order, and ends at a leaf whose next_leaf is 0; no next_leaf designates
\* an Internal page or a page outside the file; and a leaf split sets
\* new.next_leaf to the old leaf's previous next_leaf and old.next_leaf to the
\* new page's id.
C23_LeafChain ==
    /\ []((open /\ last.op # "split") =>
            \E chain \in {LeafChain(LeftmostLeaf(0, 0), 0)} :
                /\ ChainOk(chain)
                /\ TreeLeaves(0, 0) \subseteq {chain[j] : j \in 1..Len(chain)}
                /\ \E ks \in {ChainKeys(chain, 1)} :
                       \A i \in 1..(Len(ks) - 1) : ks[i] < ks[i + 1])
    /\ [][(last'.op = "split" /\ last'.st = "Ok") =>
              /\ leaf_next(disk'[last'.end + 1]) = leaf_next(disk[1])
              /\ leaf_next(disk'[1]) = last'.end]_vars
    /\ [][(last'.op = "split_child") =>
              \E old \in {internal_get_child(disk[1], last'.out[1])} :
                  /\ leaf_next(disk'[last'.end + 1]) = leaf_next(disk[old + 1])
                  /\ leaf_next(disk'[old + 1]) = last'.end]_vars

\* C24: after create and any sequence of insert calls, whether they succeed
\* or are rejected, the keys of entries [0, num_entries) of every Leaf page
\* are strictly ascending.
C24_LeafKeysAscending ==
    created =>
        \A p \in 1..Len(disk) :
            flags(disk[p]) = Leaf =>
                \A i \in 0..(leaf_num_entries(disk[p]) - 2) :
                    leaf_get_key(disk[p], i) < leaf_get_key(disk[p], i + 1)

C24_Witness ==
    /\ created /\ last.op = "insert" /\ last.st = "Ok"
    /\ flags(disk[1]) = Leaf
    /\ leaf_num_entries(disk[1]) = 2
    /\ leaf_get_key(disk[1], 0) = last.key
    /\ leaf_get_ref(disk[1], 0) = last.ref
    /\ leaf_get_ref(disk[1], 1) # last.ref

(***************************************************************************)
(* I/O errors inside insert.  A failing append_page or write_page returns  *)
(* Err through `?` and, in the model, has written nothing; `at` numbers    *)
(* the appends and writes of a function in program order.  Through         *)
(* insert_into the only write reached is the leaf write (a leaf that would *)
(* split makes leaf_insert_at panic first); the writes of the split path   *)
(* are reached from the split steps of SpecSplitRoot.                      *)
(***************************************************************************)
\* insert whose leaf write (self.index_heap.write_page(page_id, &page)?) fails
insert_io_error(h, key, value) ==
    Bind(insert(h, key, value), LAMBDA r :
        IF r.st = "Ok" THEN [h |-> h, st |-> "Err"] ELSE r)

\* split_leaf with an error at its append_page (at = 1) or write_page (at = 2)
split_leaf_io_error(h, pid, page, at) ==
    Bind(leaf_num_entries(page), LAMBDA n :
    Bind(n \div 2, LAMBDA mid :
    Bind(leaf_move(leaf_set_num_entries(leaf_set_next(Page_new(0, Leaf), leaf_next(page)),
                                        as_u16(n - mid)),
                   page, 0, n - mid, mid), LAMBDA new_page :
    Bind(leaf_set_next(leaf_set_num_entries(page, as_u16(mid)), h.num_pages), LAMBDA p2 :
        IF Panicked(new_page) \/ Panicked(p2) THEN Ret(h, "Panic", 0, 0)
        ELSE IF at = 1 THEN Ret(h, "Err", 0, 0)
        ELSE Ret(append_page(h, new_page).h, "Err", 0, 0)))))

\* split_root with an error at its append_page (at = 1) or write_page (at = 2)
split_root_io_error(h, promote_key, right_page_id, at) ==
    Bind(read_page(h, 0), LAMBDA left_page :
        IF ~left_page.ok THEN Ret(h, "Err", 0, 0)
        ELSE IF at = 1 THEN Ret(h, "Err", 0, 0)
        ELSE Ret(append_page(h, left_page.page).h, "Err", 0, 0))

\* BTree::insert(key, value) failing at its leaf write
InsertIoError(key, value) ==
    /\ open
    /\ last.op # "split"
    /\ insert(Handle, key, value).st = "Ok"
    /\ \E r \in {insert_io_error(Handle, key, value)} :
           /\ disk' = r.h.pages
           /\ num_pages' = r.h.num_pages
           /\ last' = Op("io_error", key, 0, value, r.st, <<"insert", 1>>)
    /\ UNCHANGED <<page_size, open, created, req, inserted, hp, rows>>

\* the rest of insert from the split of the root leaf on, failing at
\* split_leaf's append (1) or write (2) or at split_root's append (3) or
\* write of page 0 (4)
SplitLeafRootIoError(at) ==
    /\ open
    /\ last.op # "split"
    /\ flags(disk[1]) = Leaf
    /\ leaf_num_entries(disk[1]) >= 2
    /\ \E r \in {IF at <= 2 THEN split_leaf_io_error(Handle, 0, disk[1], at)
                 ELSE Bind(split_leaf(Handle, 0, disk[1]), LAMBDA s :
                          IF s.st # "Some" THEN s
                          ELSE split_root_io_error(s.h, s.key, s.pid, at - 2))} :
           /\ disk' = r.h.pages
           /\ num_pages' = r.h.num_pages
           /\ open' = (r.st # "Panic")
           /\ last' = Op("io_error", 0, 0, NoRef, r.st, <<"split_root", at>>)
    /\ UNCHANGED <<page_size, created, req, inserted, hp, rows>>

\* the rest of insert from the split of the root's leaf child child_idx on,
\* failing at split_leaf's append (1) or write (2) or at the parent's write (3)
SplitChildIoError(child_idx, at) ==
    /\ open
    /\ last.op # "split"
    /\ flags(disk[1]) = Internal
    /\ child_idx <= internal_num_keys(disk[1])
    /\ internal_num_keys(disk[1]) < internal_max_keys
    /\ internal_get_child(disk[1], child_idx) \in 1..(num_pages - 1)
    /\ flags(disk[internal_get_child(disk[1], child_idx) + 1]) = Leaf
    /\ leaf_num_entries(disk[internal_get_child(disk[1], child_idx) + 1]) >= 2
    /\ \E r \in {IF at <= 2
                 THEN split_leaf_io_error(Handle, internal_get_child(disk[1], child_idx),
                                          disk[internal_get_child(disk[1], child_idx) + 1], at)
                 ELSE Bind(split_leaf(Handle, internal_get_child(disk[1], child_idx),
                                      disk[internal_get_child(disk[1], child_idx) + 1]), LAMBDA s :
                          IF s.st # "Some" THEN s ELSE Ret(s.h, "Err", 0, 0))} :
           /\ disk' = r.h.pages
           /\ num_pages' = r.h.num_pages
           /\ open' = (r.st # "Panic")
           /\ last' = Op("io_error", child_idx, 0, NoRef, r.st, <<"split_child", at>>)
    /\ UNCHANGED <<page_size, created, req, inserted, hp, rows>>

\* a behaviour is followed up to its first failed insert
NextIoError ==
    \/ last.op # "io_error" /\ NextSplit
    \/ \E key \in Keys, value \in RowRefs : last.op # "io_error" /\ InsertIoError(key, value)
    \/ \E at \in 1..4 : last.op # "io_error" /\ SplitLeafRootIoError(at)
    \/ \E child_idx \in 0..internal_max_keys, at \in 1..3 :
           last.op # "io_error" /\ SplitChildIoError(child_idx, at)

SpecIoError == InitSplit /\ [][NextIoError]_vars

\* get returns every pair of an insert call that returned Ok
InsertedKept(h) ==
    \A k \in DOMAIN inserted : get(h, k) = [st |-> "Some", ref |-> inserted[k]]

\* C25: an insert that fails with an I/O error at one of its appends or
\* writes (the leaf write, split_leaf's append or write, the parent's write,
\* split_root's append or write of page 0) leaves at most wasted pages: every
\* key inserted by an earlier successful insert is still returned by get with
\* its RowRef.
C25_IoErrorKeepsInsertedKeys ==
    [][(last'.op = "io_error" /\ last'.st = "Err" /\ InsertedKept(Handle)) =>
          /\ open'
          /\ InsertedKept([pages |-> disk', num_pages |-> num_pages'])]_vars

\* C26: in every Heap page reached from Page::new by insert and delete_slot,
\* the slot directory and the row heap do not overlap:
\* 32 + 4 * n_slots <= free_end <= PAGE_SIZE, every slot's byte range
\* [offset, offset + length) lies inside [free_end, PAGE_SIZE), and the byte
\* ranges of distinct slots are pairwise disjoint.
C26_DirectoryAndHeapApart ==
    /\ ~Panicked(hp)
    /\ HEADER_LEN + SLOT_SIZE * raw_n_slots(hp) <= free_end(hp)
    /\ free_end(hp) <= page_size
    /\ \A i \in 0..(raw_n_slots(hp) - 1) :
           /\ free_end(hp) <= slot_entry(hp, i).offset
           /\ slot_entry(hp, i).offset + slot_entry(hp, i).len <= page_size
    /\ \A i \in 0..(raw_n_slots(hp) - 1), j \in 0..(raw_n_slots(hp) - 1) :
           i # j =>
               \/ slot_entry(hp, i).offset + slot_entry(hp, i).len <= slot_entry(hp, j).offset
               \/ slot_entry(hp, j).offset + slot_entry(hp, j).len <= slot_entry(hp, i).offset

C26_Witness ==
    /\ last.op = "delete_slot" /\ last.st = "Ok"
    /\ raw_n_slots(hp) = 4
    /\ free_end(hp) - slot_dir_end(hp) = SLOT_SIZE
    /\ \A i \in 0..3 : slot_entry(hp, i).len >= 1
    /\ slot_entry(hp, 1).len = 9 /\ slot_entry(hp, 1).offset > free_end(hp)

\* C27: in every Heap page reached from Page::new by insert and delete_slot,
\* free_space() is free_end - (32 + 4 * n_slots) - 4 when that is >= 0 and 0
\* otherwise, the unsigned subtraction never underflows (the state
\* 0 < free_end - (32 + 4 * n_slots) < 4 is not reached), and a fresh page has
\* free_space = PAGE_SIZE - 32 - 4.
C27_FreeSpaceFormula ==
    /\ ~Panicked(hp)
    /\ \E gap \in {free_end(hp) - (HEADER_LEN + SLOT_SIZE * raw_n_slots(hp))} :
           /\ free_space(hp) = IF gap - SLOT_SIZE >= 0 THEN gap - SLOT_SIZE ELSE 0
           /\ ~(0 < gap /\ gap < SLOT_SIZE)
    /\ last.op = "new" => free_space(hp) = page_size - HEADER_LEN - SLOT_SIZE

C27_Witness ==
    /\ last.op = "page_insert" /\ last.st = "None" /\ Len(last.out) = 0
    /\ free_space(hp) = 0
    /\ free_end(hp) - slot_dir_end(hp) = SLOT_SIZE
    /\ raw_n_slots(hp) >= 4
    /\ \E i \in 1..Len(rows) : get_slot(hp, rows[i].slot).bytes # rows[i].bytes

\* C30: Page::insert that returns None leaves the page byte for byte
\* unchanged; Page::insert that returns Some(k) changes only n_slots,
\* free_end, directory entry k and the bytes the new row occupies, and for
\* every slot j < k get_slot(j) returns the same bytes as before the call.
C30_InsertFrame ==
    [][last'.op = "page_insert" =>
          /\ last'.st \in {"None", "Some"}
          /\ last'.st = "None" => hp' = hp
          /\ last'.st = "Some" =>
                \E k \in {last'.key} :
                    /\ k = raw_n_slots(hp)
                    /\ Len(hp') = Len(hp)
                    /\ \A o \in 0..(page_size - 1) :
                           \/ hp'[o + 1] = hp[o + 1]
                           \/ o \in OFFSET_N_SLOTS..(OFFSET_N_SLOTS + 1)
                           \/ o \in OFFSET_FREE_END..(OFFSET_FREE_END + 1)
                           \/ o \in (SLOT_DIR_START + k * SLOT_SIZE)..
                                        (SLOT_DIR_START + k * SLOT_SIZE + SLOT_SIZE - 1)
                           \/ o \in free_end(hp')..(free_end(hp') + Len(last'.out) - 1)
                    /\ \A j \in 0..(k - 1) : get_slot(hp', j) = get_slot(hp, j)]_vars

C30_Witness ==
    /\ last.op = "page_insert" /\ last.st = "Some" /\ last.key = 2
    /\ Len(last.out) = 2
    /\ get_slot(hp, 0).bytes = <<4, 5, 6, 7, 8, 9, 10, 11, 1>>
    /\ get_slot(hp, 1).bytes = <<1>>
    /\ get_slot(hp, 2).bytes = <<2, 3>>

\* the depths at which the descent from page pid of a file meets a Leaf page;
\* -1 stands for a descent that leaves the file or does not end
RECURSIVE LeafDepths(_, _, _)
LeafDepths(pages, pid, depth) ==
    IF depth > Len(pages) \/ pid >= Len(pages) THEN {0 - 1}
    ELSE IF flags(pages[pid + 1]) = Leaf THEN {depth}
    ELSE UNION {LeafDepths(pages, internal_get_child(pages[pid + 1], i), depth + 1) :
                    i \in 0..internal_num_keys(pages[pid + 1])}

\* C28: after create and any sequence of successful inserts, all Leaf pages
\* reachable from page 0 are at the same depth, and the height grows only
\* through a root split, by exactly one level.
C28_HeightBalanced ==
    /\ [](created =>
            /\ Cardinality(LeafDepths(disk, 0, 0)) = 1
            /\ (0 - 1) \notin LeafDepths(disk, 0, 0))
    /\ [][(created /\ LeafDepths(disk', 0, 0) # LeafDepths(disk, 0, 0)) =>
              /\ last'.op \in {"split_root", "split_child"}
              /\ LeafDepths(disk', 0, 0) = {d + 1 : d \in LeafDepths(disk, 0, 0)}]_vars
    /\ [][(last'.op = "split_root" /\ last'.st = "Ok") =>
              LeafDepths(disk', 0, 0) = {d + 1 : d \in LeafDepths(disk, 0, 0)}]_vars

C28_Witness ==
    /\ last.op = "split_child" /\ last.st = "Ok"
    /\ LeafDepths(disk, 0, 0) = {1}
    /\ internal_num_keys(disk[1]) = 2
    /\ Cardinality(TreeLeaves(0, 0)) = 3
    /\ num_pages = 4

\* the Internal pages reachable from page pid by child pointers
RECURSIVE TreeInternals(_, _)
TreeInternals(pid, depth) ==
    IF depth > Len(disk) \/ pid >= Len(disk) THEN {}
    ELSE IF flags(disk[pid + 1]) # Internal THEN {}
    ELSE {pid} \cup UNION {TreeInternals(internal_get_child(disk[pid + 1], i), depth + 1) :
                               i \in 0..internal_num_keys(disk[pid + 1])}

\* the child positions <<q, i>> of the tree's Internal pages that hold page id p
ChildRefs(p) ==
    {qi \in UNION {{<<q, i>> : i \in 0..internal_num_keys(disk[q + 1])} : q \in TreeInternals(0, 0)} :
        internal_get_child(disk[qi[1] + 1], qi[2]) = p}

\* C29: after inserts that all completed without I/O error, every page id in
\* 1..num_pages - 1 is referenced as a child by exactly one Internal page of
\* the tree rooted at page 0 (no orphaned page and no page referenced twice)
\* and page 0 by none; a successful insert changes num_pages by 0 when nothing
\* splits, by 1 per non-root node split and by 2 when the root splits (one
\* page appended by the node split and one by split_root).
C29_EveryPageReferencedOnce ==
    /\ []((open /\ last.op # "split") =>
            /\ ChildRefs(0) = {}
            /\ \A p \in 1..(num_pages - 1) : Cardinality(ChildRefs(p)) = 1)
    /\ [][(last'.op = "insert" /\ last'.st = "Ok") => num_pages' = num_pages]_vars
    /\ [][(last'.op = "split_child" /\ last'.st = "Ok"
              /\ internal_num_keys(disk[1]) < internal_max_keys) => num_pages' = num_pages + 1]_vars
    /\ [][(last'.op = "split" /\ last'.st = "Ok") => num_pages' = num_pages + 1]_vars
    /\ [][(last'.op = "split_root" /\ last'.st = "Ok") => num_pages' = num_pages + 1]_vars

====
